---- MODULE Spec2Model ----
(***************************************************************************)
(* A model of the GmailParser rule engine (gmail_parser/rule_engine.py):   *)
(* loading and validating a rule document, reloading it, and evaluating    *)
(* conditions and rules against email records; of the emails table         *)
(* (sync_database.py, database.py); and of the processor that runs the     *)
(* rules over the table and acts at the provider (email_processor.py).     *)
(*                                                                         *)
(* JSON values are tagged records; a JSON/Python string is the tuple of    *)
(* its characters, so that lower(), split() and int() are computed rather  *)
(* than assumed.  A Python dict is a function whose DOMAIN is its key set. *)
(***************************************************************************)
EXTENDS Integers, Sequences, FiniteSets, TLC

VARIABLES
    source,       \* the rules file on disk: what open()+json.load() will meet
    rules,        \* RuleEngine.rules
    pc,           \* position of the running __init__ / reload_rules call
    call,         \* "none" (no engine yet), "construct", "reload", "idle"
    data,         \* _load_rules: outcome of open()+json.load() for this call
    valid_rules,  \* _load_rules: the local list valid_rules
    idx,          \* _load_rules: number of candidates already validated
    escaped,      \* exception that left the last finished call ("none" if none)
    oldRules,     \* RuleEngine.rules when the running/last call started
    observed,     \* what a concurrent reader of engine.rules last saw
    vin,          \* input handed to a validator / evaluator
    vout,         \* what that call returned
    now,          \* datetime.now(), in days
    db,           \* the emails table: the row stored under each id
    gmail,        \* the provider's mailbox: label ids of each message, labels
    prev,         \* what the evaluation before the last one returned; for a
                  \* processor, its last action call and what that returned
    proc,         \* the running process_with_rules / process_in_batches call
    hist,         \* the calls made so far on the database or by the processor
    steps         \* the number of steps the processor's run has taken

vars == <<source, rules, pc, call, data, valid_rules, idx, escaped, oldRules,
          observed, vin, vout, now, db, gmail, prev, proc, hist, steps>>

\* what the engine's own operations never touch
farVars == <<db, gmail, prev, proc, hist, steps>>

loadVars == <<source, rules, pc, call, data, valid_rules, idx, escaped,
              oldRules, observed>>

-----------------------------------------------------------------------------
(* Bounds *)
MaxStored == 3

MaxDocLen == 2      \* longest rule array in a source document
MaxTicks  == 1      \* days the clock may advance before an evaluation
FirstDay  == 20     \* the day of November 2026 on which the clock starts
MaxConds  == 2      \* longest condition list of a rule handed to evaluate_rule
MaxEmails == 2      \* longest list of records handed to the engine
MaxRules  == 2      \* longest rule set of the engine that processes a list

-----------------------------------------------------------------------------
(* Text *)

UpperChars == <<"A","B","C","D","E","F","G","H","I","J","K","L","M",
                "N","O","P","Q","R","S","T","U","V","W","X","Y","Z">>
LowerChars == <<"a","b","c","d","e","f","g","h","i","j","k","l","m",
                "n","o","p","q","r","s","t","u","v","w","x","y","z">>
DigitChars == <<"0","1","2","3","4","5","6","7","8","9">>
SpaceChars == {" ", "\t", "\n"}

IndexOf(c, chars) ==
    IF \E i \in 1..Len(chars) : chars[i] = c
    THEN CHOOSE i \in 1..Len(chars) : chars[i] = c
    ELSE 0

\* str.lower()
lower(t) ==
    [i \in 1..Len(t) |->
        IF IndexOf(t[i], UpperChars) > 0
        THEN LowerChars[IndexOf(t[i], UpperChars)]
        ELSE t[i]]

\* str.split() with no argument: the maximal runs of non-whitespace
RECURSIVE SplitFrom(_, _, _, _)
SplitFrom(t, i, cur, acc) ==
    IF i > Len(t)
    THEN IF cur = <<>> THEN acc ELSE Append(acc, cur)
    ELSE IF t[i] \in SpaceChars
    THEN SplitFrom(t, i + 1, <<>>, IF cur = <<>> THEN acc ELSE Append(acc, cur))
    ELSE SplitFrom(t, i + 1, Append(cur, t[i]), acc)

split(t) == SplitFrom(t, 1, <<>>, <<>>)

\* the literals int(str) accepts: an optional sign, then digits that single
\* underscores may separate
IsIntLiteral(tok) ==
    LET body == IF tok # <<>> /\ tok[1] \in {"+", "-"} THEN Tail(tok) ELSE tok
    IN  /\ body # <<>>
        /\ \A i \in 1..Len(body) : IndexOf(body[i], DigitChars) > 0 \/ body[i] = "_"
        /\ body[1] # "_" /\ body[Len(body)] # "_"
        /\ \A i \in 1..(Len(body) - 1) : ~(body[i] = "_" /\ body[i + 1] = "_")

RECURSIVE DigitsValue(_, _)
DigitsValue(body, acc) ==
    IF body = <<>> THEN acc
    ELSE IF body[1] = "_" THEN DigitsValue(Tail(body), acc)
    ELSE DigitsValue(Tail(body), 10 * acc + (IndexOf(body[1], DigitChars) - 1))

\* int(tok) for a literal int() accepts
IntValue(tok) ==
    IF tok[1] = "-" THEN 0 - DigitsValue(Tail(tok), 0)
    ELSE IF tok[1] = "+" THEN DigitsValue(Tail(tok), 0)
    ELSE DigitsValue(tok, 0)

\* `needle in hay` for two strings
IsSubstring(needle, hay) ==
    \E i \in 0..(Len(hay) - Len(needle)) :
        SubSeq(hay, i + 1, i + Len(needle)) = needle

RECURSIVE NatToText(_)
NatToText(n) ==
    IF n < 10 THEN <<DigitChars[n + 1]>>
    ELSE Append(NatToText(n \div 10), DigitChars[(n % 10) + 1])

\* the names the configuration and the rule schema use
sFrom         == <<"F","r","o","m">>
sTo           == <<"T","o">>
sSubject      == <<"S","u","b","j","e","c","t">>
sMessage      == <<"M","e","s","s","a","g","e">>
sReceived     == <<"R","e","c","e","i","v","e","d">>
sContains     == <<"C","o","n","t","a","i","n","s">>
sDoesNotContain == <<"D","o","e","s"," ","n","o","t"," ","C","o","n","t","a","i","n">>
sEquals       == <<"E","q","u","a","l","s">>
sDoesNotEqual == <<"D","o","e","s"," ","n","o","t"," ","e","q","u","a","l">>
sLessThan     == <<"L","e","s","s"," ","t","h","a","n">>
sGreaterThan  == <<"G","r","e","a","t","e","r"," ","t","h","a","n">>
sAll          == <<"A","l","l">>
sAny          == <<"A","n","y">>
tInbox  == <<"I", "N", "B", "O", "X">>
tUnread == <<"U", "N", "R", "E", "A", "D">>
sMarkRead     == <<"m","a","r","k","_","r","e","a","d">>
sMarkUnread   == <<"m","a","r","k","_","u","n","r","e","a","d">>
sMoveMessage  == <<"m","o","v","e","_","m","e","s","s","a","g","e">>

\* the units of a relative date
tDay    == <<"d", "a", "y">>
tDays   == <<"d", "a", "y", "s">>
tMonth  == <<"m", "o", "n", "t", "h">>
tMonths == <<"m", "o", "n", "t", "h", "s">>

-----------------------------------------------------------------------------
(* JSON values as json.load returns them *)

JStr(t)   == [k |-> "str",  s |-> t]
JBool(b)  == [k |-> "bool", b |-> b]
JInt(n)   == [k |-> "int",  n |-> n]
JNull     == [k |-> "null"]
JList(q)  == [k |-> "list", items |-> q]
JDict(f)  == [k |-> "dict", f |-> f]

\* dict keys and set members must be hashable; list and dict are not
Hashable(v) == v.k \notin {"list", "dict"}

-----------------------------------------------------------------------------
(* config.py *)

FIELD_MAPPING ==
    (sFrom :> "from_address") @@ (sTo :> "to_address") @@
    (sSubject :> "subject") @@ (sMessage :> "message") @@
    (sReceived :> "received_date")

STRING_PREDICATES == <<sContains, sDoesNotContain, sEquals, sDoesNotEqual>>

DATE_PREDICATES == <<sLessThan, sGreaterThan>>

\* config.ACTIONS (ACTIONS is a reserved word of TLA+)
ACTION_TYPES == <<sMarkUnread, sMarkRead, sMoveMessage>>

\* `x in lst` for a Python list of strings: equality against each element
InList(v, lst) == v.k = "str" /\ \E i \in 1..Len(lst) : lst[i] = v.s

-----------------------------------------------------------------------------
(* Results of a call: a returned value or an exception in flight *)

Ret(b)   == [exc |-> "none", ret |-> b]
Raise(e) == [exc |-> e]
NoCall   == [exc |-> "nocall"]
NoInput  == [fn |-> "none"]

\* no processor run is under way
NoRun == [pc |-> "none"]

\* a table, or a mailbox, that holds nothing
NoRows == [id \in {} |-> {}]

Raised(r)   == r.exc \notin {"none", "nocall"}
Returned(r) == r.exc = "none"

\* as ExceptReturnFalse, with the handler answering True
ExceptReturnFalse_returnTrue(r) == IF Raised(r) THEN Ret(TRUE) ELSE r

\* try: ... except Exception as e: logger.error(...); return False
ExceptReturnFalse(r) == IF Raised(r) THEN Ret(FALSE) ELSE r

-----------------------------------------------------------------------------
(* rule_engine.py: validation *)

\* as ConditionRequired, with the value key forgotten
ConditionRequired_noValue == {"field", "predicate"}

\* required = ['field', 'predicate', 'value']
ConditionRequired == {"field", "predicate", "value"}

\* as PredicatesFor, with the Received branch missing
PredicatesFor_stringOnly(field) == STRING_PREDICATES

\* the predicate list a field is checked against
PredicatesFor(field) ==
    IF field = JStr(sReceived) THEN DATE_PREDICATES ELSE STRING_PREDICATES

\* body of the try block of _validate_condition
validate_condition_try(condition) ==
    IF condition.k \in {"int", "bool", "null"}
    THEN Raise("TypeError")            \* `field not in condition`
    ELSE IF condition.k \in {"str", "list"}
    THEN Ret(FALSE)                    \* a key is missing, or condition['field'] fails
    ELSE IF \E key \in ConditionRequired : key \notin DOMAIN condition.f
    THEN Ret(FALSE)
    ELSE IF ~Hashable(condition.f.field)
    THEN Raise("TypeError")            \* `not in FIELD_MAPPING` hashes the field
    ELSE IF ~(condition.f.field.k = "str" /\ condition.f.field.s \in DOMAIN FIELD_MAPPING)
    THEN Ret(FALSE)
    ELSE Ret(InList(condition.f.predicate, PredicatesFor(condition.f.field)))

validate_condition(condition) ==
    ExceptReturnFalse(validate_condition_try(condition)).ret

\* as ActionValueOk, with the isinstance tests forgotten
ActionValueOk_anyType(action) ==
    IF action.f.type \in {JStr(sMarkRead), JStr(sMoveMessage)}
    THEN "value" \in DOMAIN action.f
    ELSE TRUE

\* the action-specific requirements
ActionValueOk(action) ==
    IF action.f.type = JStr(sMarkRead)
    THEN "value" \in DOMAIN action.f /\ action.f.value.k = "bool"
    ELSE IF action.f.type = JStr(sMarkUnread)
    THEN TRUE
    ELSE IF action.f.type = JStr(sMoveMessage)
    THEN "value" \in DOMAIN action.f /\ action.f.value.k = "str"
    ELSE TRUE

\* body of the try block of _validate_action
validate_action_try(action) ==
    IF action.k \in {"int", "bool", "null"}
    THEN Raise("TypeError")            \* `'type' not in action`
    ELSE IF action.k \in {"str", "list"}
    THEN Ret(FALSE)                    \* 'type' is missing, or action['type'] fails
    ELSE IF "type" \notin DOMAIN action.f
    THEN Ret(FALSE)
    ELSE IF ~InList(action.f.type, ACTION_TYPES)
    THEN Ret(FALSE)
    ELSE Ret(ActionValueOk(action))

validate_action(action) ==
    ExceptReturnFalse(validate_action_try(action)).ret

\* as RulePredicates, with 'Any' forgotten
RulePredicates_allOnly == <<sAll>>

\* rule['predicate'] not in ['All', 'Any']
RulePredicates == <<sAll, sAny>>

\* body of the try block of _validate_rule
validate_rule_try(rule) ==
    IF rule.k \in {"int", "bool", "null"}
    THEN Raise("TypeError")            \* `field not in rule`
    ELSE IF rule.k \in {"str", "list"}
    THEN Ret(FALSE)                    \* a key is missing, or rule['predicate'] fails
    ELSE IF \E key \in {"predicate", "conditions", "actions"} : key \notin DOMAIN rule.f
    THEN Ret(FALSE)
    ELSE IF ~InList(rule.f.predicate, RulePredicates)
    THEN Ret(FALSE)
    ELSE IF rule.f.conditions.k # "list"
    THEN Ret(FALSE)
    ELSE IF \E i \in 1..Len(rule.f.conditions.items) :
                ~validate_condition(rule.f.conditions.items[i])
    THEN Ret(FALSE)
    ELSE IF rule.f.actions.k # "list"
    THEN Ret(FALSE)
    ELSE IF \E i \in 1..Len(rule.f.actions.items) :
                ~validate_action(rule.f.actions.items[i])
    THEN Ret(FALSE)
    ELSE Ret(TRUE)

validate_rule(rule) ==
    ExceptReturnFalse(validate_rule_try(rule)).ret

-----------------------------------------------------------------------------
(* Rule documents the model draws from *)

Cond(f, p, v) == JDict([field |-> f, predicate |-> p, value |-> v])
Rule(p, cs, as) == JDict([predicate |-> p, conditions |-> JList(cs), actions |-> JList(as)])

t7days   == <<"7", " ", "d", "a", "y", "s">>
tSoon    == <<"s", "o", "o", "n">>
tA       == <<"a">>
tInvalid == <<"I", "n", "v", "a", "l", "i", "d">>

cFromA        == Cond(JStr(sFrom), JStr(sContains), JStr(tA))
cRecvOk       == Cond(JStr(sReceived), JStr(sLessThan), JStr(t7days))
cRecvBadValue == Cond(JStr(sReceived), JStr(sGreaterThan), JStr(tSoon))
cRecvStrPred  == Cond(JStr(sReceived), JStr(sContains), JStr(t7days))

aRead        == JDict([type |-> JStr(sMarkRead), value |-> JBool(TRUE)])
aMove        == JDict([type |-> JStr(sMoveMessage), value |-> JStr(tA)])
aReadNoValue == JDict([type |-> JStr(sMarkRead)])

rOk1     == Rule(JStr(sAll), <<cFromA>>, <<aRead>>)
rOk2     == Rule(JStr(sAny), <<cRecvOk, cFromA>>, <<aMove>>)
rRecvBad == Rule(JStr(sAll), <<cRecvBadValue>>, <<aRead>>)
rBadCond == Rule(JStr(sAll), <<cFromA, cRecvStrPred>>, <<aRead>>)
rBadAct  == Rule(JStr(sAny), <<cFromA>>, <<aRead, aReadNoValue>>)

\* candidates a rule array may hold: three the code accepts, two it drops
Candidates == {rOk1, rOk2, rRecvBad, rBadCond, JInt(5)}

RuleArrays == UNION {[1..n -> Candidates] : n \in 0..MaxDocLen}

\* what the rules file can be when the engine opens it
Sources ==
    {[kind |-> kd] : kd \in {"missing", "denied", "directory", "undecodable", "badjson"}}
    \cup {[kind |-> "json", doc |-> JList(q)] : q \in RuleArrays}
    \cup {[kind |-> "json", doc |-> r] : r \in {rOk1, rRecvBad, rBadAct}}
    \cup {[kind |-> "json", doc |-> v] : v \in {JInt(5), JStr(tA), JNull}}

-----------------------------------------------------------------------------
(* rule_engine.py: RuleEngine.__init__, _load_rules, reload_rules *)

\* with open(self.rules_file, 'r') as f: data = json.load(f)
open_and_load(src) ==
    CASE src.kind = "missing"     -> Raise("FileNotFoundError")
      [] src.kind = "denied"      -> Raise("PermissionError")
      [] src.kind = "directory"   -> Raise("IsADirectoryError")
      [] src.kind = "undecodable" -> Raise("UnicodeDecodeError")
      [] src.kind = "badjson"     -> Raise("JSONDecodeError")
      [] src.kind = "json"        -> Ret(src.doc)

\* as HandledByLoad, with the JSONDecodeError clause forgotten
HandledByLoad_noJson(exc) == exc = "FileNotFoundError"

\* the except clauses of _load_rules
HandledByLoad(exc) == exc \in {"FileNotFoundError", "JSONDecodeError"}

\* the local list `rules`: a list as it is, a single object wrapped
CandidateList(d) ==
    IF d.k = "list" THEN d.items ELSE <<d>>

\* as LoopStep, with the validation verdict ignored
LoopStep_keepAll(valid, rule) == Append(valid, rule)

\* one turn of `for rule in rules`: keep the rule if it validates
LoopStep(valid, rule) ==
    IF validate_rule(rule) THEN Append(valid, rule) ELSE valid

\* as RulesDuringLoop, with the loop appending to self.rules itself
RulesDuringLoop_inPlace(current, valid) == valid

\* self.rules while the loop runs: the loop appends to the local list only
RulesDuringLoop(current, valid) == current

Unseen == [seen |-> FALSE]

EngineExists ==
    \/ call = "reload"
    \/ call = "construct" /\ pc = "idle" /\ escaped = "none"

Init ==
    /\ source \in Sources
    /\ rules = <<>>
    /\ pc = "idle"
    /\ call = "none"
    /\ data = NoCall
    /\ valid_rules = <<>>
    /\ idx = 0
    /\ escaped = "none"
    /\ oldRules = <<>>
    /\ observed = Unseen
    /\ vin = NoInput
    /\ vout = NoCall
    /\ now = 0
    /\ db = NoRows
    /\ gmail = NoRows
    /\ prev = NoCall
    /\ proc = NoRun
    /\ hist = <<>>
    /\ steps = 0

\* the environment replaces, removes or locks the rules file between calls
WriteSource ==
    /\ pc = "idle"
    /\ source' \in Sources \ {source}
    /\ UNCHANGED <<rules, pc, call, data, valid_rules, idx, escaped, oldRules,
                   observed, vin, vout, now, farVars>>

\* RuleEngine(rules_file): self.rules = [] and into _load_rules
Construct ==
    /\ pc = "idle" /\ ~EngineExists
    /\ call' = "construct"
    /\ rules' = <<>>
    /\ oldRules' = <<>>
    /\ pc' = "open"
    /\ data' = NoCall
    /\ escaped' = "none"
    /\ observed' = Unseen
    /\ UNCHANGED <<source, valid_rules, idx, vin, vout, now, farVars>>

\* engine.reload_rules(): into _load_rules
StartReload ==
    /\ pc = "idle" /\ EngineExists
    /\ call' = "reload"
    /\ oldRules' = rules
    /\ pc' = "open"
    /\ data' = NoCall
    /\ escaped' = "none"
    /\ observed' = Unseen
    /\ UNCHANGED <<source, rules, valid_rules, idx, vin, vout, now, farVars>>

\* lines 29-40 and 53-58: read and parse the file, test the top-level shape
LoadRead ==
    /\ pc = "open"
    /\ data' = open_and_load(source)
    /\ IF Raised(data')
       THEN IF HandledByLoad(data'.exc)
            THEN /\ rules' = <<>>
                 /\ UNCHANGED escaped
            ELSE /\ escaped' = data'.exc
                 /\ UNCHANGED rules
       ELSE IF data'.ret.k \in {"list", "dict"}
            THEN UNCHANGED <<rules, escaped>>
            ELSE /\ rules' = <<>>
                 /\ UNCHANGED escaped
    /\ pc' = IF Returned(data') /\ data'.ret.k \in {"list", "dict"}
             THEN "validate" ELSE "return"
    /\ valid_rules' = <<>>
    /\ idx' = 0
    /\ UNCHANGED <<source, call, oldRules, observed, vin, vout, now, farVars>>

\* lines 44-48: validate the next candidate
LoadValidate ==
    /\ pc = "validate"
    /\ idx < Len(CandidateList(data.ret))
    /\ valid_rules' = LoopStep(valid_rules, CandidateList(data.ret)[idx + 1])
    /\ idx' = idx + 1
    /\ rules' = RulesDuringLoop(rules, valid_rules')
    /\ UNCHANGED <<source, pc, call, data, escaped, oldRules, observed, vin, vout, now, farVars>>

\* line 50: self.rules = valid_rules
LoadSwap ==
    /\ pc = "validate"
    /\ idx = Len(CandidateList(data.ret))
    /\ rules' = valid_rules
    /\ pc' = "return"
    /\ UNCHANGED <<source, call, data, valid_rules, idx, escaped, oldRules,
                   observed, vin, vout, now, farVars>>

\* the call returns, or its exception reaches the caller
LoadReturn ==
    /\ pc = "return"
    /\ pc' = "idle"
    /\ valid_rules' = <<>>
    /\ idx' = 0
    /\ observed' = Unseen
    /\ data' = NoCall
    /\ oldRules' = <<>>
    /\ UNCHANGED <<source, rules, call, escaped, vin, vout, now, farVars>>

\* another thread reads engine.rules while reload_rules is running
ReadRules ==
    /\ call = "reload" /\ pc # "idle"
    /\ observed' = [seen |-> TRUE, val |-> rules]
    /\ UNCHANGED <<source, rules, pc, call, data, valid_rules, idx, escaped,
                   oldRules, vin, vout, now, farVars>>

Next ==
    \/ WriteSource
    \/ Construct
    \/ StartReload
    \/ LoadRead
    \/ LoadValidate
    \/ LoadSwap
    \/ LoadReturn
    \/ ReadRules

Spec == Init /\ [][Next]_vars

-----------------------------------------------------------------------------
(* Properties of loading and reloading *)

SourceCandidates ==
    IF source.doc.k = "list" THEN source.doc.items ELSE <<source.doc>>

SourceIsRuleDocument ==
    source.kind = "json" /\ source.doc.k \in {"list", "dict"}

\* C1: a load or reload whose source is missing, is not valid JSON, or holds
\* a top-level value that is neither object nor array ends with an empty
\* rule set and no exception leaves the call.
C1_SoftFailEmpty ==
    (/\ pc = "return"
     /\ \/ source.kind \in {"missing", "badjson"}
        \/ source.kind = "json" /\ source.doc.k \notin {"list", "dict"})
    => rules = <<>> /\ escaped = "none"

C1_Witness ==
    /\ pc = "return" /\ call = "reload"
    /\ source.kind = "badjson"
    /\ oldRules # <<>>
    /\ rules = <<>>

\* C2: a load or reload whose source exists but cannot be read (permission
\* denied, a directory, undecodable bytes) ends with an empty rule set and
\* no exception leaves the call.
C2_UnreadableEmpty ==
    (pc = "return" /\ source.kind \in {"denied", "directory", "undecodable"})
    => rules = <<>> /\ escaped = "none"

\* C3: after a load or reload of a readable rule document the rule set is
\* exactly the candidates that pass validation, in document order, unaltered.
C3_ValidSubsequence ==
    (pc = "return" /\ SourceIsRuleDocument)
    => rules = SelectSeq(SourceCandidates, validate_rule)

C3_Witness ==
    /\ pc = "return" /\ SourceIsRuleDocument
    /\ Len(SourceCandidates) = 2
    /\ ~validate_rule(SourceCandidates[1])
    /\ rules = <<SourceCandidates[2]>>

\* '<integer> <unit>' with unit day, days, month or months in any letter case
ParsesAsRelativeDate(v) ==
    /\ v.k = "str"
    /\ Len(split(v.s)) = 2
    /\ IsIntLiteral(split(v.s)[1])
    /\ lower(split(v.s)[2]) \in {tDay, tDays, tMonth, tMonths}

ReceivedConditions(rule) ==
    {rule.f.conditions.items[i] : i \in
        {j \in 1..Len(rule.f.conditions.items) :
            rule.f.conditions.items[j].f.field = JStr(sReceived)}}

\* C7 (as claimed): every Received condition of every loaded rule has a value
\* of the form '<integer> <unit>'.
C7_ReceivedValueParses ==
    \A i \in 1..Len(rules) : \A c \in ReceivedConditions(rules[i]) :
        ParsesAsRelativeDate(c.f.value)

\* the candidate with the value of each of its Received conditions replaced
\* by '7 days' (for candidates that are objects holding a list of objects)
WellShaped(cand) ==
    /\ cand.k = "dict" /\ "conditions" \in DOMAIN cand.f
    /\ cand.f.conditions.k = "list"
    /\ \A i \in 1..Len(cand.f.conditions.items) :
          /\ cand.f.conditions.items[i].k = "dict"
          /\ {"field", "value"} \subseteq DOMAIN cand.f.conditions.items[i].f

WithParsingValues(cand) ==
    [cand EXCEPT !.f.conditions.items =
        [i \in 1..Len(cand.f.conditions.items) |->
            IF cand.f.conditions.items[i].f.field = JStr(sReceived)
            THEN [cand.f.conditions.items[i] EXCEPT !.f.value = JStr(t7days)]
            ELSE cand.f.conditions.items[i]]]

\* C7 (amended): every Received condition of every loaded rule has a date
\* predicate and a value key, and the form of the value plays no part in
\* loading: a candidate is loaded exactly when it would be with parsing values.
C7_ReceivedValueUnchecked ==
    /\ \A i \in 1..Len(rules) : \A c \in ReceivedConditions(rules[i]) :
          /\ InList(c.f.predicate, DATE_PREDICATES)
          /\ "value" \in DOMAIN c.f
    /\ (pc = "return" /\ SourceIsRuleDocument)
       => \A i \in 1..Len(SourceCandidates) :
             WellShaped(SourceCandidates[i])
             => ((\E j \in 1..Len(rules) : rules[j] = SourceCandidates[i])
                 <=> validate_rule(WithParsingValues(SourceCandidates[i])))

C7_Witness ==
    /\ pc = "return"
    /\ \E i \in 1..Len(rules) : \E c \in ReceivedConditions(rules[i]) :
          ~ParsesAsRelativeDate(c.f.value)

\* C8: whatever a reader sees of engine.rules while reload_rules runs is the
\* complete old set or the complete new set, never a list under construction.
C8_ReloadAtomic ==
    (call = "reload" /\ observed.seen)
    => \/ observed.val = oldRules
       \/ /\ pc = "return" /\ escaped = "none"
          /\ observed.val = rules
          /\ SourceIsRuleDocument => rules = SelectSeq(SourceCandidates, validate_rule)

C8_Witness ==
    /\ call = "reload" /\ pc = "validate"
    /\ observed.seen /\ observed.val = oldRules
    /\ valid_rules # <<>> /\ valid_rules # oldRules
    /\ idx < Len(CandidateList(data.ret))

\* C9: when a load or reload ends, the rule set is what loading the source it
\* read gives on its own; nothing of an earlier source survives, and the set
\* is empty when the source yields no rules.
C9_LatestSourceOnly ==
    pc = "return"
    => rules = IF SourceIsRuleDocument
               THEN SelectSeq(SourceCandidates, validate_rule)
               ELSE <<>>

-----------------------------------------------------------------------------
(* The validators applied to inputs of every shape *)

Absent == [k |-> "absent"]

\* the dict holding the keys that are given a value
Strip(rec) == [key \in {x \in DOMAIN rec : rec[x] # Absent} |-> rec[key]]

FieldInputs ==
    {JStr(sFrom), JStr(sTo), JStr(sSubject), JStr(sMessage), JStr(sReceived),
     JStr(lower(sFrom)), JInt(1), JList(<<>>), Absent}

PredicateInputs ==
    {JStr(sContains), JStr(sDoesNotContain), JStr(sEquals), JStr(sDoesNotEqual),
     JStr(sLessThan), JStr(sGreaterThan),
     JStr(tInvalid), JStr(lower(sContains)), JNull, Absent}

ValueInputs == {JStr(t7days), JStr(tSoon), JInt(7), Absent}

ConditionInputs ==
    {JDict(Strip([field |-> f, predicate |-> p, value |-> v])) :
        f \in FieldInputs, p \in PredicateInputs, v \in ValueInputs}
    \cup {JStr(sFrom), JList(<<>>), JNull}

ActionInputs ==
    {JDict(Strip([type |-> t, value |-> v])) :
        t \in {JStr(sMarkRead), JStr(sMarkUnread), JStr(sMoveMessage),
               JStr(tInvalid), JInt(1), Absent},
        v \in {JBool(TRUE), JBool(FALSE), JStr(tA), JInt(1), JNull, Absent}}
    \cup {JStr(sMarkUnread), JNull}

RuleInputs ==
    {JDict(Strip([predicate |-> p, conditions |-> cs, actions |-> as])) :
        p  \in {JStr(sAll), JStr(sAny), JStr(tInvalid), JStr(lower(sAll)),
                JList(<<JStr(sAll)>>), Absent},
        cs \in {JList(<<>>), JList(<<cFromA>>), JList(<<cFromA, cRecvOk>>),
                JList(<<cFromA, cRecvStrPred>>), JList(<<cRecvStrPred, cFromA>>),
                JList(<<JInt(5)>>), cFromA, Absent},
        as \in {JList(<<>>), JList(<<aRead>>), JList(<<aRead, aMove>>),
                JList(<<aRead, aReadNoValue>>), JList(<<aReadNoValue, aRead>>),
                aRead, JNull, Absent}}
    \cup {JInt(5), JStr(sAll), JList(<<>>)}

InitValidate ==
    /\ source = [kind |-> "missing"]
    /\ rules = <<>>
    /\ pc = "idle"
    /\ call = "none"
    /\ data = NoCall
    /\ valid_rules = <<>>
    /\ idx = 0
    /\ escaped = "none"
    /\ oldRules = <<>>
    /\ observed = Unseen
    /\ vin = NoInput
    /\ vout = NoCall
    /\ now = 0
    /\ db = NoRows
    /\ gmail = NoRows
    /\ prev = NoCall
    /\ proc = NoRun
    /\ hist = <<>>
    /\ steps = 0

CallValidateRule ==
    /\ \E r \in RuleInputs :
          /\ vin' = [fn |-> "validate_rule", arg |-> r]
          /\ vout' = Ret(validate_rule(r))
    /\ UNCHANGED <<loadVars, now, farVars>>

CallValidateCondition ==
    /\ \E c \in ConditionInputs :
          /\ vin' = [fn |-> "validate_condition", arg |-> c]
          /\ vout' = Ret(validate_condition(c))
    /\ UNCHANGED <<loadVars, now, farVars>>

CallValidateAction ==
    /\ \E a \in ActionInputs :
          /\ vin' = [fn |-> "validate_action", arg |-> a]
          /\ vout' = Ret(validate_action(a))
    /\ UNCHANGED <<loadVars, now, farVars>>

NextValidate ==
    \/ CallValidateRule
    \/ CallValidateCondition
    \/ CallValidateAction

SpecValidate == InitValidate /\ [][NextValidate]_vars

\* C4: _validate_rule accepts a candidate exactly when it has the keys
\* predicate, conditions and actions, its predicate is 'All' or 'Any', its
\* conditions are a list of valid conditions (the empty list included) and
\* its actions are a list of valid actions.
C4_RuleAccepted ==
    vin.fn = "validate_rule"
    => vout = Ret(/\ vin.arg.k = "dict"
                  /\ {"predicate", "conditions", "actions"} \subseteq DOMAIN vin.arg.f
                  /\ vin.arg.f.predicate \in {JStr(sAll), JStr(sAny)}
                  /\ vin.arg.f.conditions.k = "list"
                  /\ \A i \in 1..Len(vin.arg.f.conditions.items) :
                        validate_condition(vin.arg.f.conditions.items[i])
                  /\ vin.arg.f.actions.k = "list"
                  /\ \A i \in 1..Len(vin.arg.f.actions.items) :
                        validate_action(vin.arg.f.actions.items[i]))

C4_Witness ==
    /\ vin.fn = "validate_rule"
    /\ vin.arg = Rule(JStr(sAny), <<>>, <<aRead, aMove>>)
    /\ vout = Ret(TRUE)

\* C5: _validate_condition accepts a condition exactly when it has the keys
\* field, predicate and value, its field is From, To, Subject, Message or
\* Received, and its predicate is a date predicate on Received and a string
\* predicate on every other field.
C5_ConditionAccepted ==
    vin.fn = "validate_condition"
    => vout = Ret(/\ vin.arg.k = "dict"
                  /\ {"field", "predicate", "value"} \subseteq DOMAIN vin.arg.f
                  /\ vin.arg.f.field \in {JStr(sFrom), JStr(sTo), JStr(sSubject),
                                          JStr(sMessage), JStr(sReceived)}
                  /\ IF vin.arg.f.field = JStr(sReceived)
                     THEN vin.arg.f.predicate \in {JStr(sLessThan), JStr(sGreaterThan)}
                     ELSE vin.arg.f.predicate \in
                            {JStr(sContains), JStr(sDoesNotContain),
                             JStr(sEquals), JStr(sDoesNotEqual)})

C5_Witness ==
    /\ vin.fn = "validate_condition"
    /\ vin.arg = Cond(JStr(sReceived), JStr(sGreaterThan), JStr(tSoon))
    /\ vout = Ret(TRUE)

\* C6: _validate_action accepts an action exactly when it has a type that is
\* mark_read, mark_unread or move_message, a mark_read carries a boolean
\* value, a move_message carries a string value, and a mark_unread needs
\* nothing more.
C6_ActionAccepted ==
    vin.fn = "validate_action"
    => vout = Ret(/\ vin.arg.k = "dict"
                  /\ "type" \in DOMAIN vin.arg.f
                  /\ \/ vin.arg.f.type = JStr(sMarkUnread)
                     \/ /\ vin.arg.f.type = JStr(sMarkRead)
                        /\ "value" \in DOMAIN vin.arg.f
                        /\ vin.arg.f.value.k = "bool"
                     \/ /\ vin.arg.f.type = JStr(sMoveMessage)
                        /\ "value" \in DOMAIN vin.arg.f
                        /\ vin.arg.f.value.k = "str")

C6_Witness ==
    /\ vin.fn = "validate_action"
    /\ vin.arg = JDict([type |-> JStr(sMarkRead), value |-> JInt(1)])
    /\ vout = Ret(FALSE)

-----------------------------------------------------------------------------
(* Python values met at evaluation: datetimes, str(), date strings *)

PyDatetime(t, aware) == [k |-> "datetime", t |-> t, aware |-> aware]

\* day 0 of the model's calendar is 2026-10-31, proleptic ordinal 739920;
\* datetime covers the ordinals 1..3652059 and timedelta at most 999999999 days
EpochOrdinal   == 739920
MaxOrdinal     == 3652059
MaxDeltaDays   == 999999999

tIsoMonth  == <<"2", "0", "2", "6", "-", "1", "1", "-">>
tMidnight  == <<"T", "0", "0", ":", "0", "0", ":", "0", "0">>
tUtcOffset == <<"+", "0", "0", ":", "0", "0">>

\* datetime.isoformat() of midnight on day dt.t of November 2026
isoformat(dt) ==
    tIsoMonth \o <<DigitChars[(dt.t \div 10) + 1], DigitChars[(dt.t % 10) + 1]>>
    \o tMidnight \o (IF dt.aware THEN tUtcOffset ELSE <<>>)

\* dateutil.parser.parse on the strings of the model: an ISO date of
\* November 2026, with or without the time and a UTC offset; anything else
\* ('', 'soon', ...) is a ParserError
parser_parse(t) ==
    IF /\ Len(t) >= 10
       /\ SubSeq(t, 1, 8) = tIsoMonth
       /\ IndexOf(t[9], DigitChars) > 0 /\ IndexOf(t[10], DigitChars) > 0
       /\ 10 * (IndexOf(t[9], DigitChars) - 1) + (IndexOf(t[10], DigitChars) - 1) \in 1..30
       /\ SubSeq(t, 11, Len(t)) \in {<<>>, tMidnight, tMidnight \o tUtcOffset}
    THEN Ret(PyDatetime(10 * (IndexOf(t[9], DigitChars) - 1) + (IndexOf(t[10], DigitChars) - 1),
                        SubSeq(t, 11, Len(t)) = tMidnight \o tUtcOffset))
    ELSE Raise("ParserError")

\* str(x)
PyStr(v) ==
    CASE v.k = "str"  -> v.s
      [] v.k = "null" -> <<"N", "o", "n", "e">>
      [] v.k = "bool" -> IF v.b THEN <<"T", "r", "u", "e">> ELSE <<"F", "a", "l", "s", "e">>
      [] v.k = "int"  -> IF v.n < 0 THEN <<"-">> \o NatToText(0 - v.n) ELSE NatToText(v.n)

\* datetime.now() - timedelta(days=n)
NowMinusDays(clock, n) ==
    IF n > MaxDeltaDays \/ n < 0 - MaxDeltaDays
    THEN Raise("OverflowError")
    ELSE IF EpochOrdinal + clock - n < 1 \/ EpochOrdinal + clock - n > MaxOrdinal
    THEN Raise("OverflowError")
    ELSE Ret(PyDatetime(clock - n, FALSE))

\* a < b and a > b against a naive datetime b
DatetimeLess(a, b) ==
    IF a.k # "datetime" THEN Raise("TypeError")
    ELSE IF a.aware # b.aware THEN Raise("TypeError")
    ELSE Ret(a.t < b.t)

DatetimeGreater(a, b) ==
    IF a.k # "datetime" THEN Raise("TypeError")
    ELSE IF a.aware # b.aware THEN Raise("TypeError")
    ELSE Ret(a.t > b.t)

-----------------------------------------------------------------------------
(* rule_engine.py: evaluation of one condition *)

\* as check_string_condition_try, with 'Does not Contain' testing the value
\* as written instead of the lower-cased one
check_string_condition_try_rawNotContain(email_value, predicate, value) ==
    LET ev == lower(PyStr(email_value))
        cv == lower(PyStr(value))
    IN  IF predicate = JStr(sContains) THEN Ret(IsSubstring(cv, ev))
        ELSE IF predicate = JStr(sDoesNotContain) THEN Ret(~IsSubstring(PyStr(value), ev))
        ELSE IF predicate = JStr(sEquals) THEN Ret(ev = cv)
        ELSE IF predicate = JStr(sDoesNotEqual) THEN Ret(ev # cv)
        ELSE Ret(FALSE)

\* as check_string_condition_try, with the value never lower-cased
check_string_condition_try_valueNotLowered(email_value, predicate, value) ==
    LET ev == lower(PyStr(email_value))
        cv == PyStr(value)
    IN  IF predicate = JStr(sContains) THEN Ret(IsSubstring(cv, ev))
        ELSE IF predicate = JStr(sDoesNotContain) THEN Ret(~IsSubstring(cv, ev))
        ELSE IF predicate = JStr(sEquals) THEN Ret(ev = cv)
        ELSE IF predicate = JStr(sDoesNotEqual) THEN Ret(ev # cv)
        ELSE Ret(FALSE)

\* body of the try block of _check_string_condition
check_string_condition_try(email_value, predicate, value) ==
    LET ev == lower(PyStr(email_value))
        cv == lower(PyStr(value))
    IN  IF predicate = JStr(sContains) THEN Ret(IsSubstring(cv, ev))
        ELSE IF predicate = JStr(sDoesNotContain) THEN Ret(~IsSubstring(cv, ev))
        ELSE IF predicate = JStr(sEquals) THEN Ret(ev = cv)
        ELSE IF predicate = JStr(sDoesNotEqual) THEN Ret(ev # cv)
        ELSE Ret(FALSE)

check_string_condition(email_value, predicate, value) ==
    ExceptReturnFalse(check_string_condition_try(email_value, predicate, value))

\* as ValuePartsOk, with values of more than two tokens let through
ValuePartsOk_atLeastTwo(parts) == Len(parts) >= 2

\* len(parts) != 2 rejects the value
ValuePartsOk(parts) == Len(parts) = 2

\* the else branch of the unit test: logged, and the condition is false
UnknownUnit == [exc |-> "unknown date unit"]

\* as UnitDays, with a month counted as one day
UnitDays_monthAsDay(unit, number) ==
    IF unit \in {tDay, tDays} THEN Ret(number)
    ELSE IF unit \in {tMonth, tMonths} THEN Ret(number)
    ELSE UnknownUnit

\* the days a unit stands for: number for day(s), number * 30 for month(s)
UnitDays(unit, number) ==
    IF unit \in {tDay, tDays} THEN Ret(number)
    ELSE IF unit \in {tMonth, tMonths} THEN Ret(number * 30)
    ELSE UnknownUnit

\* body of the try block of _check_date_condition
check_date_condition_try(email_date, predicate, value, clock) ==
    LET parsed == IF email_date.k = "str" THEN parser_parse(email_date.s) ELSE Ret(email_date)
    IN  IF Raised(parsed) THEN parsed
        ELSE IF value.k # "str" THEN Raise("AttributeError")     \* value.split()
        ELSE LET parts == split(value.s)
             IN  IF ~ValuePartsOk(parts) THEN Ret(FALSE)
                 ELSE IF ~IsIntLiteral(parts[1]) THEN Ret(FALSE)  \* except ValueError
                 ELSE LET days == UnitDays(lower(parts[2]), IntValue(parts[1]))
                      IN  IF Raised(days) THEN Ret(FALSE)         \* unknown date unit
                          ELSE LET comparison_date == NowMinusDays(clock, days.ret)
                               IN  IF Raised(comparison_date) THEN comparison_date
                                   ELSE IF predicate = JStr(sLessThan)
                                   THEN DatetimeLess(parsed.ret, comparison_date.ret)
                                   ELSE IF predicate = JStr(sGreaterThan)
                                   THEN DatetimeGreater(parsed.ret, comparison_date.ret)
                                   ELSE Ret(FALSE)

check_date_condition(email_date, predicate, value, clock) ==
    ExceptReturnFalse(check_date_condition_try(email_date, predicate, value, clock))

\* body of the try block of evaluate_condition
evaluate_condition_try(condition, email, clock) ==
    IF condition.k # "dict" THEN Raise("TypeError")
    ELSE IF \E key \in {"field", "predicate", "value"} : key \notin DOMAIN condition.f
    THEN Raise("KeyError")
    ELSE IF ~Hashable(condition.f.field) THEN Raise("TypeError")   \* FIELD_MAPPING.get
    ELSE IF ~(condition.f.field.k = "str" /\ condition.f.field.s \in DOMAIN FIELD_MAPPING)
    THEN Ret(FALSE)
    ELSE IF email.k # "dict" THEN Raise("AttributeError")          \* email.get
    ELSE LET db_field == FIELD_MAPPING[condition.f.field.s]
             email_value == IF db_field \in DOMAIN email.f
                            THEN email.f[db_field] ELSE JStr(<<>>)
         IN  IF condition.f.field = JStr(sReceived)
             THEN check_date_condition(email_value, condition.f.predicate,
                                       condition.f.value, clock)
             ELSE check_string_condition(email_value, condition.f.predicate,
                                         condition.f.value)

evaluate_condition(condition, email, clock) ==
    ExceptReturnFalse(evaluate_condition_try(condition, email, clock))

-----------------------------------------------------------------------------
(* rule_engine.py: evaluate_rule, get_matching_emails, process_emails *)

\* as Falsy, with nothing taken for empty
Falsy_never(v) == FALSE

\* `not v`: the empty list, None, '', 0 and False
Falsy(v) ==
    CASE v.k = "list" -> v.items = <<>>
      [] v.k = "null" -> TRUE
      [] v.k = "str"  -> v.s = <<>>
      [] v.k = "int"  -> v.n = 0
      [] v.k = "bool" -> ~v.b

\* what `for condition in conditions` iterates over: the items of a list,
\* the characters of a string; a number is not iterable
IterItems(v) ==
    CASE v.k = "list" -> Ret(v.items)
      [] v.k = "str"  -> Ret([i \in 1..Len(v.s) |-> JStr(<<v.s[i]>>)])
      [] v.k \in {"int", "bool", "null"} -> Raise("TypeError")

\* the list `results`: one evaluate_condition per condition, in order
ConditionResults(conditions, email, clock) ==
    [i \in 1..Len(conditions) |-> evaluate_condition(conditions[i], email, clock).ret]

\* as PyAll, with one true result being enough
PyAll_asAny(results) == \E i \in 1..Len(results) : results[i]

\* all(results) and any(results)
PyAll(results) == \A i \in 1..Len(results) : results[i]

PyAny(results) == \E i \in 1..Len(results) : results[i]

\* body of the try block of evaluate_rule
evaluate_rule_try(rule, email, clock) ==
    IF rule.k # "dict" THEN Raise("TypeError")
    ELSE IF "predicate" \notin DOMAIN rule.f \/ "conditions" \notin DOMAIN rule.f
    THEN Raise("KeyError")
    ELSE IF Falsy(rule.f.conditions) THEN Ret(FALSE)
    ELSE LET conditions == IterItems(rule.f.conditions)
         IN  IF Raised(conditions) THEN conditions
             ELSE LET results == ConditionResults(conditions.ret, email, clock)
                  IN  IF rule.f.predicate = JStr(sAll) THEN Ret(PyAll(results))
                      ELSE IF rule.f.predicate = JStr(sAny) THEN Ret(PyAny(results))
                      ELSE Ret(FALSE)

evaluate_rule(rule, email, clock) ==
    ExceptReturnFalse(evaluate_rule_try(rule, email, clock))

\* as MatchStep, with a match put at the head of the list
MatchStep_prepend(st, i, rule, clock) ==
    IF evaluate_rule(rule, st.emails[i], clock).ret
    THEN [st EXCEPT !.matching = <<st.emails[i]>> \o @]
    ELSE st

\* as MatchStep, with a matching record marked read where it stands
MatchStep_markRead(st, i, rule, clock) ==
    IF evaluate_rule(rule, st.emails[i], clock).ret
    THEN LET marked == [st.emails[i] EXCEPT !.f.is_read = JBool(TRUE)]
         IN  [emails |-> [st.emails EXCEPT ![i] = marked],
              matching |-> Append(st.matching, marked)]
    ELSE st

\* one turn of `for email in emails` on the argument `emails` and the local
\* list `matching`: the i-th record is appended if the rule matches it
MatchStep(st, i, rule, clock) ==
    IF evaluate_rule(rule, st.emails[i], clock).ret
    THEN [st EXCEPT !.matching = Append(@, st.emails[i])]
    ELSE st

RECURSIVE MatchLoop(_, _, _, _)
MatchLoop(st, i, rule, clock) ==
    IF i > Len(st.emails) THEN st
    ELSE MatchLoop(MatchStep(st, i, rule, clock), i + 1, rule, clock)

\* get_matching_emails: `matching` is what it returns, `emails` the
\* argument as the call leaves it
get_matching_emails(emails, rule, clock) ==
    MatchLoop([emails |-> emails, matching |-> <<>>], 1, rule, clock)

tRulePrefix == <<"r", "u", "l", "e", "_">>

\* as rule_name, numbered from 0
rule_name_fromZero(i) == tRulePrefix \o NatToText(i - 1)

\* f"rule_{i+1}" for the rule at position i, positions counted from 1
rule_name(i) == tRulePrefix \o NatToText(i)

\* the entry stored under a rule's name
ResultEntry(rule, matching) ==
    [rule |-> rule, matching_emails |-> matching, count |-> Len(matching)]

\* one turn of `for i, rule in enumerate(self.rules)` on self.rules, the
\* argument `emails` and the dict `results`
ProcessStep(st, i, clock) ==
    LET m == get_matching_emails(st.emails, st.rules[i], clock)
    IN  [rules   |-> st.rules,
         emails  |-> m.emails,
         results |-> (rule_name(i) :> ResultEntry(st.rules[i], m.matching))
                     @@ st.results]

RECURSIVE ProcessLoop(_, _, _)
ProcessLoop(st, i, clock) ==
    IF i > Len(st.rules) THEN st
    ELSE ProcessLoop(ProcessStep(st, i, clock), i + 1, clock)

\* process_emails: `results` is what it returns, `rules` and `emails` are
\* self.rules and the argument as the call leaves them
process_emails(engine_rules, emails, clock) ==
    ProcessLoop([rules |-> engine_rules, emails |-> emails, results |-> NoRows], 1, clock)

-----------------------------------------------------------------------------
(* rule_engine.py: get_summary *)

\* as rule_info, with the two counts taken from the wrong lists
rule_info_swapCounts(i, rule) ==
    [id               |-> i,
     predicate        |-> rule.f.predicate,
     conditions_count |-> Len(rule.f.actions.items),
     actions_count    |-> Len(rule.f.conditions.items),
     conditions       |-> rule.f.conditions,
     actions          |-> rule.f.actions]

\* the dict appended for the rule at position i, positions counted from 1
rule_info(i, rule) ==
    [id               |-> i,
     predicate        |-> rule.f.predicate,
     conditions_count |-> Len(rule.f.conditions.items),
     actions_count    |-> Len(rule.f.actions.items),
     conditions       |-> rule.f.conditions,
     actions          |-> rule.f.actions]

get_summary(engine_rules) ==
    [total_rules |-> Len(engine_rules),
     rules       |-> [i \in 1..Len(engine_rules) |-> rule_info(i, engine_rules[i])]]

-----------------------------------------------------------------------------
(* sync_database.py, database.py, db_utils.py, constants.py: the emails   *)
(* table.  A table is a function from the ids it holds to their rows; the *)
(* columns carried are id, from_address (standing for the plain TEXT      *)
(* columns), received_date, is_read and labels.                           *)

\* dict.get(key, default)
DictGet(d, key, default) == IF key \in DOMAIN d.f THEN d.f[key] ELSE default

\* json.dumps of a list of strings: ["INBOX", "UNREAD"]
RECURSIVE DumpItems(_)
DumpItems(items) ==
    IF items = <<>> THEN <<>>
    ELSE <<"\"">> \o Head(items).s \o <<"\"">>
         \o (IF Len(items) > 1 THEN <<",", " ">> ELSE <<>>)
         \o DumpItems(Tail(items))

json_dumps(v) == <<"[">> \o DumpItems(v.items) \o <<"]">>

\* json.loads of such a text: the strings between quotes, in order
RECURSIVE LoadItems(_, _, _, _, _)
LoadItems(text, i, inside, cur, acc) ==
    IF i > Len(text) THEN acc
    ELSE IF text[i] = "\""
    THEN IF inside THEN LoadItems(text, i + 1, FALSE, <<>>, Append(acc, JStr(cur)))
                   ELSE LoadItems(text, i + 1, TRUE, <<>>, acc)
    ELSE IF inside THEN LoadItems(text, i + 1, TRUE, Append(cur, text[i]), acc)
    ELSE LoadItems(text, i + 1, FALSE, cur, acc)

json_loads(text) ==
    IF Len(text) >= 2 /\ text[1] = "[" /\ text[Len(text)] = "]"
    THEN Ret(JList(LoadItems(text, 2, FALSE, <<>>, <<>>)))
    ELSE Raise("JSONDecodeError")

\* as serialize_labels, with the labels put in alphabetical order of their
\* first letters when there are two
serialize_labels_sorted(labels) ==
    LET v == IF Falsy(labels) THEN JList(<<>>) ELSE labels
    IN  json_dumps(IF Len(v.items) = 2
                      /\ IndexOf(v.items[2].s[1], UpperChars) < IndexOf(v.items[1].s[1], UpperChars)
                   THEN JList(<<v.items[2], v.items[1]>>)
                   ELSE v)

\* json.dumps(labels or [])
serialize_labels(labels) ==
    json_dumps(IF Falsy(labels) THEN JList(<<>>) ELSE labels)

\* json.loads(labels_json) if labels_json else [], [] on a decoding error
deserialize_labels(labels_json) ==
    IF Falsy(labels_json) THEN JList(<<>>)
    ELSE LET r == json_loads(labels_json.s)
         IN  IF Raised(r) THEN JList(<<>>) ELSE r.ret

\* the parameter tuple of the insert
prepare_email_data(email_data) ==
    IF email_data.k # "dict" THEN Raise("AttributeError")
    ELSE Ret([id            |-> DictGet(email_data, "id", JNull),
              from_address  |-> DictGet(email_data, "from_address", JNull),
              received_date |-> DictGet(email_data, "received_date", JNull),
              is_read       |-> DictGet(email_data, "is_read", JBool(FALSE)),
              labels        |-> JStr(serialize_labels(
                                    DictGet(email_data, "labels", JList(<<>>))))])

\* the value sqlite3 stores for a bound parameter: a bool goes in as 0 or 1
Bind(v) == IF v.k = "bool" THEN JInt(IF v.b THEN 1 ELSE 0) ELSE v

\* the dict made of a fetched row
process_email_row(row) ==
    JDict([id            |-> row.id,
           from_address  |-> row.from_address,
           received_date |-> row.received_date,
           is_read       |-> JBool(~Falsy(row.is_read)),
           labels        |-> deserialize_labels(row.labels)])

\* EMAIL_INSERT_QUERY: INSERT OR REPLACE INTO emails ... VALUES (...)
ExecInsert(tbl, params) ==
    (params.id.s :> [c \in DOMAIN params |-> Bind(params[c])]) @@ tbl

\* EMAIL_READ_STATUS_UPDATE: UPDATE emails SET is_read = ? WHERE id = ?
ExecUpdateRead(tbl, is_read, id) ==
    IF id \in DOMAIN tbl THEN [tbl EXCEPT ![id].is_read = Bind(is_read)] ELSE tbl

\* EMAIL_LABELS_UPDATE: UPDATE emails SET labels = ? WHERE id = ?
ExecUpdateLabels(tbl, labels_json, id) ==
    IF id \in DOMAIN tbl THEN [tbl EXCEPT ![id].labels = JStr(labels_json)] ELSE tbl

\* EMAIL_DELETE and EMAIL_CLEAR_ALL
ExecDelete(tbl, id) == [k \in DOMAIN tbl \ {id} |-> tbl[k]]

ExecClear(tbl) == NoRows

\* EMAIL_COUNT and EMAIL_GET_BY_ID; fetchone() is None when no row matches
ExecCount(tbl) == Cardinality(DOMAIN tbl)

ExecGetById(tbl, id) == IF id \in DOMAIN tbl THEN Ret(tbl[id]) ELSE Ret(JNull)

\* the result of a call on the table: the table it leaves, what it returns
Done(tbl, ret) == [tbl |-> tbl, ret |-> ret]

\* EmailDatabase.insert_email; an exception rolls the connection back
insert_email(tbl, email_data) ==
    LET params == prepare_email_data(email_data)
    IN  IF Raised(params) THEN Done(tbl, FALSE)
        ELSE Done(ExecInsert(tbl, params.ret), TRUE)

\* as BatchLoop, with the rows written before an exception kept
RECURSIVE BatchLoop_partial(_, _)
BatchLoop_partial(tbl, emails) ==
    IF emails = <<>> THEN Ret(tbl)
    ELSE LET params == prepare_email_data(Head(emails))
         IN  IF Raised(params) THEN Ret(tbl)
             ELSE BatchLoop_partial(ExecInsert(tbl, params.ret), Tail(emails))

\* the loop of insert_emails_batch, as far as it gets
RECURSIVE BatchLoop(_, _)
BatchLoop(tbl, emails) ==
    IF emails = <<>> THEN Ret(tbl)
    ELSE LET params == prepare_email_data(Head(emails))
         IN  IF Raised(params) THEN params
             ELSE BatchLoop(ExecInsert(tbl, params.ret), Tail(emails))

\* EmailDatabase.insert_emails_batch: all rows are committed, or none is
insert_emails_batch(tbl, emails) ==
    LET r == BatchLoop(tbl, emails)
    IN  IF Raised(r) THEN Done(tbl, 0) ELSE Done(r.ret, Len(emails))

get_email_by_id(tbl, email_id) ==
    LET row == ExecGetById(tbl, email_id).ret
    IN  IF row = JNull THEN JNull ELSE process_email_row(row)

update_email_read_status(tbl, email_id, is_read) ==
    Done(ExecUpdateRead(tbl, is_read, email_id), TRUE)

update_email_labels(tbl, email_id, labels) ==
    Done(ExecUpdateLabels(tbl, serialize_labels(labels), email_id), TRUE)

delete_email(tbl, email_id) == Done(ExecDelete(tbl, email_id), TRUE)

get_email_count(tbl) == ExecCount(tbl)

clear_database(tbl) == Done(ExecClear(tbl), TRUE)

-----------------------------------------------------------------------------
(* database.py: EmailDB, the store the processor works on.  Each method   *)
(* catches every exception; `fails` says whether the statement raised.    *)

DateChars == <<"+", "-">> \o DigitChars \o <<":", "T">>

\* text comparison of two column values, byte by byte
RECURSIVE TextLess(_, _)
TextLess(a, b) ==
    IF b = <<>> THEN FALSE
    ELSE IF a = <<>> THEN TRUE
    ELSE IF a[1] = b[1] THEN TextLess(Tail(a), Tail(b))
    ELSE IndexOf(a[1], DateChars) < IndexOf(b[1], DateChars)

\* NULL sorts before every text
ColumnLess(a, b) ==
    IF a.k = "null" THEN b.k # "null"
    ELSE b.k # "null" /\ TextLess(a.s, b.s)

RECURSIVE OrderByReceivedDesc(_, _)
OrderByReceivedDesc(tbl, ids) ==
    IF ids = {} THEN <<>>
    ELSE LET top == CHOOSE i \in ids : \A j \in ids \ {i} :
                        ColumnLess(tbl[j].received_date, tbl[i].received_date)
         IN  <<tbl[top]>> \o OrderByReceivedDesc(tbl, ids \ {top})

\* EMAIL_GET_ALL: SELECT * FROM emails ORDER BY received_date DESC LIMIT ?
ExecGetAll(tbl, limit) ==
    LET found == OrderByReceivedDesc(tbl, DOMAIN tbl)
    IN  IF limit < 0 \/ limit >= Len(found) THEN found ELSE SubSeq(found, 1, limit)

\* the default of get_all_emails' limit
DefaultLimit == 1000

get_all_emails(tbl, limit, fails) ==
    IF fails THEN <<>>
    ELSE LET found == ExecGetAll(tbl, limit)
         IN  [i \in 1..Len(found) |-> process_email_row(found[i])]

get_count(tbl, fails) == IF fails THEN 0 ELSE ExecCount(tbl)

\* EmailDB.mark_as_read
db_mark_as_read(tbl, email_id, is_read, fails) ==
    IF fails THEN Done(tbl, FALSE)
    ELSE Done(ExecUpdateRead(tbl, is_read, email_id), TRUE)

update_labels(tbl, email_id, labels, fails) ==
    IF fails THEN Done(tbl, FALSE)
    ELSE Done(ExecUpdateLabels(tbl, serialize_labels(labels), email_id), TRUE)

-----------------------------------------------------------------------------
(* email_processor.py: EmailProcessor.  The provider is the mailbox the   *)
(* service talks to: messages gives the label ids of each message, labels *)
(* the labels that exist.  The state an operation works on is the pair of *)
(* provider and store; a fault names the one call that raises in it.      *)

\* config.py sets 50; the model works with chunks of 2, so that a store of
\* MaxStored records fills more than one chunk
BATCH_PROCESS_SIZE == 2

Faults == {"none", "messages_get", "modify_first", "labels_list",
           "labels_create", "modify_second", "db"}

system_labels ==
    {tInbox, <<"S","E","N","T">>, <<"D","R","A","F","T">>, <<"S","P","A","M">>,
     <<"T","R","A","S","H">>, <<"S","T","A","R","R","E","D">>, tUnread,
     <<"I","M","P","O","R","T","A","N","T">>}

\* the id the provider gives a label it creates
LabelId(label_name) == <<"L","a","b","e","l","_">> \o label_name

\* users().labels().list(): a system label's id is its name
SystemLabelList == {[name |-> l, id |-> l] : l \in system_labels}

Contains(seq, x) == \E i \in 1..Len(seq) : seq[i] = x

Without(seq, x) ==
    LET Keep(y) == y # x
    IN  SelectSeq(seq, Keep)

\* users().messages().modify(body={'removeLabelIds': [label]})
ModifyRemove(g, email_id, label) ==
    [g EXCEPT !.messages[email_id] = Without(@, JStr(label))]

\* users().messages().modify(body={'addLabelIds': [label]})
ModifyAdd(g, email_id, label) ==
    [g EXCEPT !.messages[email_id] =
        IF Contains(@, JStr(label)) THEN @ ELSE Append(@, JStr(label))]

\* what an operation leaves and returns
Out(st, ret) == [gmail |-> st.gmail, db |-> st.db, ret |-> ret]

\* EmailProcessor.mark_as_read
mark_as_read(st, service, email_id, is_read, fault) ==
    IF ~service THEN Out(st, FALSE)
    ELSE IF fault = "modify_first" \/ email_id \notin DOMAIN st.gmail.messages
    THEN Out(st, FALSE)
    ELSE LET g == IF ~Falsy(is_read) THEN ModifyRemove(st.gmail, email_id, tUnread)
                  ELSE ModifyAdd(st.gmail, email_id, tUnread)
             d == db_mark_as_read(st.db, email_id, is_read, fault = "db")
         IN  Out([gmail |-> g, db |-> d.tbl], TRUE)

\* EmailProcessor._get_or_create_label: the provider it leaves, the label
\* id or None
get_or_create_label(g, label_name, fault) ==
    IF fault = "labels_list" THEN [gmail |-> g, ret |-> JNull]
    ELSE IF \E l \in g.labels : l.name = label_name
    THEN [gmail |-> g,
          ret |-> JStr((CHOOSE l \in g.labels : l.name = label_name).id)]
    ELSE IF label_name \in system_labels THEN [gmail |-> g, ret |-> JNull]
    ELSE IF fault = "labels_create" THEN [gmail |-> g, ret |-> JNull]
    ELSE [gmail |-> [g EXCEPT !.labels = @ \cup {[name |-> label_name,
                                                   id |-> LabelId(label_name)]}],
          ret |-> JStr(LabelId(label_name))]

\* EmailProcessor.move_message
move_message(st, service, email_id, destination, fault) ==
    IF ~service THEN Out(st, FALSE)
    ELSE IF fault = "messages_get" \/ email_id \notin DOMAIN st.gmail.messages
    THEN Out(st, FALSE)
    ELSE LET current_labels == st.gmail.messages[email_id]
             inInbox == Contains(current_labels, JStr(tInbox))
         IN  IF inInbox /\ fault = "modify_first" THEN Out(st, FALSE)
             ELSE LET g1 == IF inInbox THEN ModifyRemove(st.gmail, email_id, tInbox)
                            ELSE st.gmail
                      found == get_or_create_label(g1, destination.s, fault)
                      label_id == found.ret
                  IN  IF Falsy(label_id)
                      THEN Out([gmail |-> found.gmail, db |-> st.db], FALSE)
                      ELSE IF fault = "modify_second"
                      THEN Out([gmail |-> found.gmail, db |-> st.db], FALSE)
                      ELSE LET g2 == ModifyAdd(found.gmail, email_id, label_id.s)
                               new_labels == JList(Append(Without(current_labels,
                                                                  JStr(tInbox)),
                                                          label_id))
                               d == update_labels(st.db, email_id, new_labels,
                                                  fault = "db")
                           IN  Out([gmail |-> g2, db |-> d.tbl], TRUE)

\* the key execute_actions files an action's outcome under
ResultKey(action_type, action_value) ==
    IF action_type = JStr(sMarkUnread) THEN [type |-> action_type]
    ELSE IF action_type \in {JStr(sMarkRead), JStr(sMoveMessage)}
    THEN [type |-> action_type, value |-> action_value]
    ELSE [type |-> action_type]

\* one turn of `for action in actions` of execute_actions
ExecuteAction(st, service, email_id, action, fault) ==
    LET action_type  == DictGet(action, "type", JNull)
        action_value == DictGet(action, "value", JNull)
    IN  IF action_type = JStr(sMarkRead)
        THEN mark_as_read(st, service, email_id, action_value, fault)
        ELSE IF action_type = JStr(sMarkUnread)
        THEN mark_as_read(st, service, email_id, JBool(FALSE), fault)
        ELSE IF action_type = JStr(sMoveMessage)
        THEN move_message(st, service, email_id, action_value, fault)
        ELSE Out(st, FALSE)

\* sum(1 for success in action_results.values() if success)
Successful(action_results) ==
    Cardinality({k \in DOMAIN action_results : action_results[k]})

\* as Turns, from the last rule back to rule i
RECURSIVE Turns_lastRuleFirst(_, _)
Turns_lastRuleFirst(results, i) ==
    IF i > Cardinality(DOMAIN results) THEN <<>>
    ELSE LET rule_result == results[rule_name(i)]
         IN  Turns_lastRuleFirst(results, i + 1)
             \o [k \in 1..Len(rule_result.matching_emails) |->
                    [rule     |-> i,
                     at       |-> k,
                     count    |-> rule_result.count,
                     email_id |-> rule_result.matching_emails[k].f.id.s,
                     actions  |-> rule_result.rule.f.actions.items]]

\* the turns of the two loops `for rule_name, rule_result in results.items()`
\* and `for email in matching_emails` still to be taken, from rule i on
RECURSIVE Turns(_, _)
Turns(results, i) ==
    IF i > Cardinality(DOMAIN results) THEN <<>>
    ELSE LET rule_result == results[rule_name(i)]
         IN  [k \in 1..Len(rule_result.matching_emails) |->
                 [rule     |-> i,
                  at       |-> k,
                  count    |-> rule_result.count,
                  email_id |-> rule_result.matching_emails[k].f.id.s,
                  actions  |-> rule_result.rule.f.actions.items]]
             \o Turns(results, i + 1)

\* as NextOffset, one record further
NextOffset_byOne(offset) == offset + 1

\* offset += BATCH_PROCESS_SIZE
NextOffset(offset) == offset + BATCH_PROCESS_SIZE

\* batch_emails = await self.db.get_all_emails(BATCH_PROCESS_SIZE)
BatchRead(tbl, offset, fails) == get_all_emails(tbl, BATCH_PROCESS_SIZE, fails)

-----------------------------------------------------------------------------
(* evaluate_condition applied to conditions and records of every shape *)

t7daysAgo  == <<"7", " ", "d", "a", "y", "s", " ", "a", "g", "o">>
t7         == <<"7">>
tXdays     == <<"x", " ", "d", "a", "y", "s">>
t7weeks    == <<"7", " ", "w", "e", "e", "k", "s">>
t7DaysCaps == <<" ", "7", " ", " ", "D", "A", "Y", "S">>
t1month    == <<"1", " ", "m", "o", "n", "t", "h">>
t2MonthsCaps == <<"2", " ", "M", "O", "N", "T", "H", "S">>
tMinus1day == <<"-", "1", " ", "d", "a", "y">>
tHugeDays  == <<"9", "0", "0", "0", "0", "0", " ", "d", "a", "y", "s">>
tAb        == <<"A", "b">>
tOn        == <<"o", "n">>

EvalFieldInputs ==
    {JStr(sFrom), JStr(sTo), JStr(sReceived), JStr(lower(sFrom)), JList(<<>>), Absent}

EvalPredicateInputs ==
    {JStr(sContains), JStr(sDoesNotContain), JStr(sEquals), JStr(sDoesNotEqual),
     JStr(sLessThan), JStr(sGreaterThan), JStr(tInvalid), Absent}

EvalValueInputs ==
    {JStr(tA), JStr(tAb), JStr(tOn), JStr(<<>>), JStr(t7days), JStr(t7DaysCaps),
     JStr(t1month), JStr(t2MonthsCaps), JStr(tMinus1day), JStr(t7), JStr(t7daysAgo), JStr(tXdays), JStr(t7weeks),
     JStr(tHugeDays), JInt(7), Absent}

EvalConditions ==
    {JDict(Strip([field |-> f, predicate |-> p, value |-> v])) :
        f \in EvalFieldInputs, p \in EvalPredicateInputs, v \in EvalValueInputs}
    \cup {JNull}

RecordDays == {10, 13, 18}

EvalDateInputs ==
    {JStr(isoformat(PyDatetime(d, FALSE))) : d \in RecordDays}
    \cup {JStr(isoformat(PyDatetime(10, TRUE))), PyDatetime(10, FALSE), PyDatetime(10, TRUE),
          PyDatetime(0 - 15, FALSE), JStr(tSoon), JStr(<<>>), JNull, JInt(5), Absent}

EvalRecords ==
    {JDict(Strip([from_address |-> a, received_date |-> d])) :
        a \in {JStr(tA), JStr(tAb), JNull, Absent}, d \in EvalDateInputs}
    \cup {JNull}

\* records as the database returns them
tM1     == <<"m", "1">>
tM2     == <<"m", "2">>
tM3     == <<"m", "3">>

Email(id, from, received, is_read, labels) ==
    JDict([id |-> JStr(id), from_address |-> from, received_date |-> received,
           is_read |-> JBool(is_read), labels |-> JList(labels)])

eOld  == Email(tM1, JStr(tAb), JStr(isoformat(PyDatetime(10, FALSE))), FALSE,
               <<JStr(tInbox), JStr(tUnread)>>)
eNew  == Email(tM2, JStr(tA), JStr(isoformat(PyDatetime(18, FALSE))), TRUE,
               <<JStr(tInbox)>>)
eNull == Email(tM3, JNull, JStr(isoformat(PyDatetime(10, TRUE))), FALSE,
               <<JStr(tUnread)>>)

ListRecords == {eOld, eNew, eNull}

\* lists of records; None stands for a record that is no mapping
EmailLists == UNION {[1..n -> ListRecords \cup {JNull}] : n \in 0..MaxEmails}

\* the emails table and the mailbox that hold these records
StoredRows ==
    insert_emails_batch(NoRows, <<eOld, eNew, eNull>>).tbl

ProviderLabels ==
    [id \in DOMAIN StoredRows |-> deserialize_labels(StoredRows[id].labels).items]

ProviderState == [messages |-> ProviderLabels, labels |-> SystemLabelList]

\* rules handed to evaluate_rule: every combinator with condition lists of
\* every length, a malformed condition among them, and malformed rules
cFromNotA == Cond(JStr(sFrom), JStr(sDoesNotContain), JStr(tA))

RuleConditionInputs == {cFromA, cFromNotA, cRecvOk, JNull}

ConditionLists == UNION {[1..n -> RuleConditionInputs] : n \in 0..MaxConds}

EvalRules ==
    {JDict(Strip([predicate |-> p, conditions |-> cs, actions |-> JList(<<aRead>>)])) :
        p \in {JStr(sAll), JStr(sAny), JStr(lower(sAll)), JStr(tInvalid), Absent},
        cs \in {JList(q) : q \in ConditionLists} \cup {JNull, JStr(tA), JInt(7), Absent}}
    \cup {JNull}

\* rules handed to get_matching_emails
rBoth         == Rule(JStr(sAll), <<cRecvOk, cFromA>>, <<aMove>>)
rNotA         == Rule(JStr(sAll), <<cFromNotA>>, <<aRead>>)
rNoConditions == Rule(JStr(sAny), <<>>, <<aRead>>)
rInvalidPred  == Rule(JStr(tInvalid), <<cFromA>>, <<aRead>>)

MatchRules == {rOk1, rOk2, rBoth, rNotA, rNoConditions, rInvalidPred, JNull}

\* rule documents behind the engine that process_emails runs on
rAnyBad == Rule(JStr(sAny), <<cRecvBadValue, cFromA>>, <<aRead>>)

EngineCandidates == {rOk1, rBoth, rNotA, rNoConditions, rAnyBad, rBadCond}

EngineRuleArrays == UNION {[1..n -> EngineCandidates] : n \in 0..MaxRules}

EvalCalls ==
    {[fn |-> "evaluate_condition", condition |-> c, email |-> e] :
        c \in EvalConditions, e \in EvalRecords}
    \cup {[fn |-> "evaluate_rule", rule |-> r, email |-> e] :
        r \in EvalRules, e \in ListRecords \cup {JNull}}
    \cup {[fn |-> "get_matching_emails", emails |-> es, rule |-> r] :
        es \in EmailLists, r \in MatchRules}
    \cup {[fn |-> "process_emails", emails |-> es] : es \in EmailLists}
    \cup {[fn |-> "get_summary"]}

\* an engine constructed from its rules file, a call about to be made
InitEval ==
    /\ pc = "idle"
    /\ call = "construct"
    /\ data = NoCall
    /\ valid_rules = <<>>
    /\ idx = 0
    /\ escaped = "none"
    /\ oldRules = <<>>
    /\ observed = Unseen
    /\ vin \in EvalCalls
    /\ IF vin.fn \in {"process_emails", "get_summary"}
       THEN \E q \in EngineRuleArrays :
               /\ source = [kind |-> "json", doc |-> JList(q)]
               /\ rules = SelectSeq(q, validate_rule)
       ELSE /\ source = [kind |-> "missing"]
            /\ rules = <<>>
    /\ vout = NoCall
    /\ now = FirstDay
    /\ db = StoredRows
    /\ gmail = ProviderState
    /\ prev = NoCall
    /\ proc = NoRun
    /\ hist = <<>>
    /\ steps = 0

\* a day passes before the evaluation
Tick ==
    /\ vout = NoCall
    /\ now < FirstDay + MaxTicks
    /\ now' = now + 1
    /\ UNCHANGED <<loadVars, vin, vout, farVars>>

CallEvaluateCondition ==
    /\ vin.fn = "evaluate_condition"
    /\ vout = NoCall
    /\ vout' = evaluate_condition(vin.condition, vin.email, now)
    /\ UNCHANGED <<loadVars, vin, now, farVars>>

CallEvaluateRule ==
    /\ vin.fn = "evaluate_rule"
    /\ vout = NoCall
    /\ vout' = evaluate_rule(vin.rule, vin.email, now)
    /\ UNCHANGED <<loadVars, vin, now, farVars>>

CallGetMatchingEmails ==
    /\ vin.fn = "get_matching_emails"
    /\ vout = NoCall
    /\ LET done == get_matching_emails(vin.emails, vin.rule, now)
       IN  /\ vout' = Ret(done.matching)
           /\ vin' = [vin EXCEPT !.emails = done.emails]
    /\ UNCHANGED <<loadVars, now, farVars>>

CallProcessEmails ==
    /\ vin.fn = "process_emails"
    /\ vout = NoCall
    /\ LET done == process_emails(rules, vin.emails, now)
       IN  /\ vout' = Ret(done.results)
           /\ vin' = [vin EXCEPT !.emails = done.emails]
           /\ rules' = done.rules
    /\ UNCHANGED <<source, pc, call, data, valid_rules, idx, escaped, oldRules,
                   observed, now, farVars>>

\* the same condition or rule is evaluated on the same record once more,
\* at once or some days after the first evaluation
EvaluateAgain ==
    /\ vin.fn \in {"evaluate_condition", "evaluate_rule"}
    /\ vout # NoCall
    /\ prev = NoCall
    /\ \E later \in now..(FirstDay + MaxTicks) :
          /\ now' = later
          /\ vout' = IF vin.fn = "evaluate_condition"
                     THEN evaluate_condition(vin.condition, vin.email, later)
                     ELSE evaluate_rule(vin.rule, vin.email, later)
    /\ prev' = vout
    /\ UNCHANGED <<loadVars, vin, db, gmail, proc, hist, steps>>

CallGetSummary ==
    /\ vin.fn = "get_summary"
    /\ vout = NoCall
    /\ vout' = Ret(get_summary(rules))
    /\ UNCHANGED <<loadVars, vin, now, farVars>>

NextEval ==
    \/ Tick
    \/ CallEvaluateCondition
    \/ CallEvaluateRule
    \/ EvaluateAgain
    \/ CallGetMatchingEmails
    \/ CallProcessEmails
    \/ CallGetSummary

SpecEval == InitEval /\ [][NextEval]_vars

-----------------------------------------------------------------------------
(* An EmailDatabase and the calls made on it.  hist is the ledger of what *)
(* the callers did: for each id inserted and not since deleted or         *)
(* cleared, the record of its last insert, the is_read and labels of      *)
(* later updates, and whether it was inserted more than once.             *)

eOldAgain == Email(tM1, JStr(tA), JStr(isoformat(PyDatetime(18, FALSE))), TRUE,
                   <<JStr(tUnread), JStr(tInbox)>>)
eBare     == JDict([id |-> JStr(tM2)])

DbIds == {tM1, tM2, tM3}

DbEmails == {eOld, eOldAgain, eNew, eBare}

DbBatches == {<<>>, <<eOld, eNew>>, <<eNew, eOld, eOldAgain>>, <<eBare, JNull, eOld>>}

DbLabels == {JList(<<>>), JList(<<JStr(tInbox)>>),
             JList(<<JStr(tUnread), JStr(tInbox)>>)}

\* the ledger after a record was inserted
Inserted(ledger, e) ==
    (e.f.id.s :> [email |-> e, is_read |-> Absent, labels |-> Absent,
                  again |-> e.f.id.s \in DOMAIN ledger]) @@ ledger

RECURSIVE InsertedAll(_, _)
InsertedAll(ledger, es) ==
    IF es = <<>> THEN ledger ELSE InsertedAll(Inserted(ledger, Head(es)), Tail(es))

InitDb ==
    /\ source = [kind |-> "missing"]
    /\ rules = <<>>
    /\ pc = "idle"
    /\ call = "construct"
    /\ data = NoCall
    /\ valid_rules = <<>>
    /\ idx = 0
    /\ escaped = "none"
    /\ oldRules = <<>>
    /\ observed = Unseen
    /\ vin = NoInput
    /\ vout = NoCall
    /\ now = FirstDay
    /\ db = NoRows
    /\ gmail = NoRows
    /\ prev = NoCall
    /\ proc = NoRun
    /\ hist = NoRows
    /\ steps = 0

CallInsertEmail ==
    \E e \in DbEmails :
        LET r == insert_email(db, e)
        IN  /\ vin' = [fn |-> "insert_email", email_data |-> e]
            /\ db' = r.tbl
            /\ vout' = Ret(r.ret)
            /\ hist' = Inserted(hist, e)
            /\ UNCHANGED <<loadVars, now, gmail, prev, proc, steps>>

CallInsertEmailsBatch ==
    \E es \in DbBatches :
        LET r == insert_emails_batch(db, es)
        IN  /\ vin' = [fn |-> "insert_emails_batch", emails |-> es]
            /\ db' = r.tbl
            /\ vout' = Ret(r.ret)
            /\ hist' = IF \A i \in 1..Len(es) : es[i].k = "dict"
                       THEN InsertedAll(hist, es) ELSE hist
            /\ UNCHANGED <<loadVars, now, gmail, prev, proc, steps>>

CallUpdateEmailReadStatus ==
    \E id \in DbIds, b \in BOOLEAN :
        LET r == update_email_read_status(db, id, JBool(b))
        IN  /\ vin' = [fn |-> "update_email_read_status", email_id |-> id,
                       is_read |-> JBool(b)]
            /\ db' = r.tbl
            /\ vout' = Ret(r.ret)
            /\ hist' = IF id \in DOMAIN hist
                       THEN [hist EXCEPT ![id].is_read = JBool(b)] ELSE hist
            /\ UNCHANGED <<loadVars, now, gmail, prev, proc, steps>>

CallUpdateEmailLabels ==
    \E id \in DbIds, labels \in DbLabels :
        LET r == update_email_labels(db, id, labels)
        IN  /\ vin' = [fn |-> "update_email_labels", email_id |-> id,
                       labels |-> labels]
            /\ db' = r.tbl
            /\ vout' = Ret(r.ret)
            /\ hist' = IF id \in DOMAIN hist
                       THEN [hist EXCEPT ![id].labels = labels] ELSE hist
            /\ UNCHANGED <<loadVars, now, gmail, prev, proc, steps>>

CallDeleteEmail ==
    \E id \in DbIds :
        LET r == delete_email(db, id)
        IN  /\ vin' = [fn |-> "delete_email", email_id |-> id]
            /\ db' = r.tbl
            /\ vout' = Ret(r.ret)
            /\ hist' = [k \in DOMAIN hist \ {id} |-> hist[k]]
            /\ UNCHANGED <<loadVars, now, gmail, prev, proc, steps>>

CallClearDatabase ==
    LET r == clear_database(db)
    IN  /\ vin' = [fn |-> "clear_database"]
        /\ db' = r.tbl
        /\ vout' = Ret(r.ret)
        /\ hist' = NoRows
        /\ UNCHANGED <<loadVars, now, gmail, prev, proc, steps>>

CallGetEmailById ==
    \E id \in DbIds :
        /\ vin' = [fn |-> "get_email_by_id", email_id |-> id]
        /\ vout' = Ret(get_email_by_id(db, id))
        /\ UNCHANGED <<loadVars, now, farVars>>

CallGetEmailCount ==
    /\ vin' = [fn |-> "get_email_count"]
    /\ vout' = Ret(get_email_count(db))
    /\ UNCHANGED <<loadVars, now, farVars>>

NextDb ==
    \/ CallInsertEmail
    \/ CallInsertEmailsBatch
    \/ CallUpdateEmailReadStatus
    \/ CallUpdateEmailLabels
    \/ CallDeleteEmail
    \/ CallClearDatabase
    \/ CallGetEmailById
    \/ CallGetEmailCount

SpecDb == InitDb /\ [][NextDb]_vars

-----------------------------------------------------------------------------
(* An EmailProcessor run: process_with_rules or process_in_batches over a *)
(* store and a provider that start in step.  proc holds the run's locals, *)
(* prev the last action call and what it returned, hist what an observer  *)
(* of the run notes: the records stored at the start, the action calls in *)
(* the order they were made, the last read-state action on each record    *)
(* and the number of times the batch loop's body was entered.             *)

aUnread == JDict([type |-> JStr(sMarkUnread)])

pReadMove == Rule(JStr(sAll), <<cFromA>>, <<aRead, aMove>>)
pUnread   == Rule(JStr(sAny), <<cRecvOk, cFromA>>, <<aUnread>>)

ProcessorRules == {<<pReadMove>>, <<pReadMove, pUnread>>, <<pUnread, rOk1>>}

\* the i-th stored record: received four days before the one stored before
\* it, without a sender unless it is the first or the third
StoredEmail(i) ==
    Email(<<"m">> \o NatToText(i),
          IF i = 1 THEN JStr(tA) ELSE IF i = 3 THEN JStr(tAb) ELSE JNull,
          JStr(isoformat(PyDatetime(FirstDay - 4 * i, FALSE))),
          i % 2 = 0,
          IF i % 2 = 0 THEN <<JStr(tInbox)>> ELSE <<JStr(tInbox), JStr(tUnread)>>)

StoredEmails(n) == [i \in 1..n |-> StoredEmail(i)]

Runs == {"process_with_rules", "process_in_batches"}

InitProc ==
    /\ pc = "idle"
    /\ call = "construct"
    /\ data = NoCall
    /\ valid_rules = <<>>
    /\ idx = 0
    /\ escaped = "none"
    /\ oldRules = <<>>
    /\ observed = Unseen
    /\ rules \in ProcessorRules
    /\ source = [kind |-> "json", doc |-> JList(rules)]
    /\ \E fn \in Runs : vin = [fn |-> fn]
    /\ vout = NoCall
    /\ now = FirstDay
    /\ \E n \in 0..MaxStored :
          /\ db = insert_emails_batch(NoRows, StoredEmails(n)).tbl
          /\ gmail = [messages |-> [id \in DOMAIN db |->
                                       deserialize_labels(db[id].labels).items],
                      labels   |-> SystemLabelList]
          /\ hist = [start |-> get_all_emails(db, -1, FALSE), log |-> <<>>,
                     last |-> [id \in DOMAIN db |-> Absent], iterations |-> 0]
    /\ prev = NoCall
    /\ steps = 0
    /\ \E service \in BOOLEAN :
          proc = [pc |-> "idle", service |-> service, total_emails |-> 0,
                  offset |-> 0, emails |-> <<>>, results |-> NoRows,
                  turns |-> <<>>, ai |-> 1, action_results |-> NoRows,
                  total_matched |-> 0, total_actions |-> 0,
                  processed_count |-> 0]

NothingFound == [processed |-> 0, matched |-> 0, actions_executed |-> 0]

\* process_with_rules up to the first action: the records are read and
\* matched against the rules
CallProcessWithRules ==
    /\ proc.pc = "idle"
    /\ vin.fn = "process_with_rules"
    /\ \E fails \in BOOLEAN :
       \E run \in {process_emails(rules, get_all_emails(db, DefaultLimit, fails), now)} :
          IF run.emails = <<>>
          THEN /\ proc' = [proc EXCEPT !.pc = "done"]
               /\ vout' = Ret(NothingFound)
               /\ rules' = rules
          ELSE /\ proc' = [proc EXCEPT !.pc = "acting", !.emails = run.emails,
                                       !.results = run.results,
                                       !.turns = Turns(run.results, 1)]
               /\ vout' = vout
               /\ rules' = run.rules
    /\ steps' = steps + 1
    /\ UNCHANGED <<source, pc, call, data, valid_rules, idx, escaped, oldRules,
                   observed, vin, now, db, gmail, prev, hist>>

\* process_in_batches up to its loop: the count is read
CallProcessInBatches ==
    /\ proc.pc = "idle"
    /\ vin.fn = "process_in_batches"
    /\ \E fails \in BOOLEAN :
          LET total_emails == get_count(db, fails)
          IN  IF total_emails = 0
              THEN /\ proc' = [proc EXCEPT !.pc = "done"]
                   /\ vout' = Ret(NothingFound)
              ELSE /\ proc' = [proc EXCEPT !.pc = "loop",
                                           !.total_emails = total_emails]
                   /\ vout' = vout
    /\ steps' = steps + 1
    /\ UNCHANGED <<loadVars, vin, now, db, gmail, prev, hist>>

\* `while offset < total_emails:` and the read and matching of a batch
WhileOffset ==
    /\ proc.pc = "loop"
    /\ IF proc.offset < proc.total_emails
       THEN \E fails \in BOOLEAN :
            \E run \in {process_emails(rules, BatchRead(db, proc.offset, fails), now)} :
                   /\ hist' = [hist EXCEPT !.iterations = @ + 1]
                   /\ IF run.emails = <<>>
                      THEN /\ proc' = [proc EXCEPT !.pc = "done"]
                           /\ vout' = Ret([processed        |-> proc.processed_count,
                                           matched          |-> proc.total_matched,
                                           actions_executed |-> proc.total_actions])
                           /\ rules' = rules
                      ELSE /\ proc' = [proc EXCEPT !.pc = "acting",
                                                   !.emails = run.emails,
                                                   !.results = run.results,
                                                   !.turns = Turns(run.results, 1)]
                           /\ vout' = vout
                           /\ rules' = run.rules
       ELSE /\ proc' = [proc EXCEPT !.pc = "done"]
            /\ vout' = Ret([processed        |-> proc.processed_count,
                            matched          |-> proc.total_matched,
                            actions_executed |-> proc.total_actions])
            /\ rules' = rules
            /\ hist' = hist
    /\ steps' = steps + 1
    /\ UNCHANGED <<source, pc, call, data, valid_rules, idx, escaped, oldRules,
                   observed, vin, now, db, gmail, prev>>

\* the name of the method an action type goes to
Method(action_type) ==
    IF action_type \in {JStr(sMarkRead), JStr(sMarkUnread)} THEN "mark_as_read"
    ELSE IF action_type = JStr(sMoveMessage) THEN "move_message"
    ELSE "none"

\* one action of execute_actions on the record of the current turn
CallExecuteAction ==
    /\ proc.pc = "acting"
    /\ proc.turns # <<>>
    /\ proc.ai <= Len(Head(proc.turns).actions)
    /\ \E fault \in Faults :
          LET turn   == Head(proc.turns)
              action == turn.actions[proc.ai]
              type   == DictGet(action, "type", JNull)
              value  == IF type = JStr(sMarkUnread) THEN JBool(FALSE)
                        ELSE DictGet(action, "value", JNull)
              out    == ExecuteAction([gmail |-> gmail, db |-> db], proc.service,
                                      turn.email_id, action, fault)
          IN  /\ gmail' = out.gmail
              /\ db' = out.db
              /\ proc' = [proc EXCEPT
                            !.ai = @ + 1,
                            !.action_results =
                                (ResultKey(type, DictGet(action, "value", JNull))
                                    :> out.ret) @@ @]
              /\ prev' = [fn |-> Method(type), email_id |-> turn.email_id,
                          value |-> value, ret |-> out.ret]
              /\ hist' = [hist EXCEPT
                            !.log = Append(@, [rule |-> turn.rule, at |-> turn.at,
                                               action |-> proc.ai,
                                               email_id |-> turn.email_id]),
                            !.last[turn.email_id] =
                                IF Method(type) = "mark_as_read"
                                THEN [is_read |-> ~Falsy(value), ret |-> out.ret,
                                      stored |-> fault # "db"]
                                ELSE @]
    /\ steps' = steps + 1
    /\ UNCHANGED <<loadVars, vin, vout, now>>

\* the end of a record's turn: its successful actions are counted; the
\* matches are counted per rule by process_with_rules, per record by
\* process_in_batches
FinishEmail ==
    /\ proc.pc = "acting"
    /\ proc.turns # <<>>
    /\ proc.ai > Len(Head(proc.turns).actions)
    /\ proc' = [proc EXCEPT
                  !.turns = Tail(@),
                  !.ai = 1,
                  !.action_results = NoRows,
                  !.total_actions = @ + Successful(proc.action_results),
                  !.total_matched =
                      IF vin.fn = "process_in_batches" THEN @ + 1
                      ELSE IF Head(proc.turns).at = 1
                      THEN @ + Head(proc.turns).count ELSE @]
    /\ steps' = steps + 1
    /\ UNCHANGED <<loadVars, vin, vout, now, db, gmail, prev, hist>>

\* the end of the loop over the results: process_with_rules returns,
\* process_in_batches moves its offset on
EndOfResults ==
    /\ proc.pc = "acting"
    /\ proc.turns = <<>>
    /\ IF vin.fn = "process_with_rules"
       THEN /\ proc' = [proc EXCEPT !.pc = "done"]
            /\ vout' = Ret([processed        |-> Len(proc.emails),
                            matched          |-> proc.total_matched,
                            actions_executed |-> proc.total_actions,
                            rules_processed  |-> Cardinality(DOMAIN proc.results)])
       ELSE /\ proc' = [proc EXCEPT
                          !.pc = "loop",
                          !.processed_count = @ + Len(proc.emails),
                          !.offset = NextOffset(@)]
            /\ vout' = vout
    /\ steps' = steps + 1
    /\ UNCHANGED <<loadVars, vin, now, db, gmail, prev, hist>>

NextProc ==
    \/ CallProcessWithRules
    \/ CallProcessInBatches
    \/ WhileOffset
    \/ CallExecuteAction
    \/ FinishEmail
    \/ EndOfResults

SpecProc == InitProc /\ [][NextProc]_vars

\* a step of a run that has not returned
Advance ==
    /\ proc.pc # "done"
    /\ steps' = steps + 1

\* every awaited call returns: a run that has not returned takes a step
SpecProcFair == SpecProc /\ WF_steps(Advance)

ConditionIsComplete(c) ==
    c.k = "dict" /\ {"field", "predicate", "value"} \subseteq DOMAIN c.f

\* the cases in which the claim has evaluate_condition answer false
C10_MustBeFalse(c, e) ==
    /\ ConditionIsComplete(c)
    /\ \/ c.f.field \notin {JStr(sFrom), JStr(sTo), JStr(sSubject), JStr(sMessage),
                            JStr(sReceived)}
       \/ /\ c.f.field \in {JStr(sFrom), JStr(sTo), JStr(sSubject), JStr(sMessage)}
          /\ c.f.predicate \notin {JStr(sContains), JStr(sDoesNotContain),
                                  JStr(sEquals), JStr(sDoesNotEqual)}
       \/ /\ c.f.field = JStr(sReceived)
          /\ \/ c.f.predicate \notin {JStr(sLessThan), JStr(sGreaterThan)}
             \/ ~ParsesAsRelativeDate(c.f.value)
             \/ /\ e.k = "dict" /\ "received_date" \in DOMAIN e.f
                /\ e.f.received_date.k = "str"
                /\ Raised(parser_parse(e.f.received_date.s))

\* C10: evaluate_condition returns a boolean and raises nothing, whatever the
\* condition and the record; it returns false when the field is unknown, the
\* predicate is unknown for the field's type, the received date does not
\* parse, or a Received value is not '<integer> <unit>' with a day or month unit.
C10_EvaluateNeverRaises ==
    (vin.fn = "evaluate_condition" /\ vout # NoCall)
    => /\ Returned(vout)
       /\ vout.ret \in BOOLEAN
       /\ C10_MustBeFalse(vin.condition, vin.email) => vout.ret = FALSE

C10_Witness ==
    /\ vin.fn = "evaluate_condition"
    /\ vin.condition = Cond(JStr(sReceived), JStr(sLessThan), JStr(t7daysAgo))
    /\ vin.email.k = "dict" /\ "received_date" \in DOMAIN vin.email.f
    /\ vin.email.f.received_date = JStr(isoformat(PyDatetime(10, FALSE)))
    /\ vout = Ret(FALSE)

-----------------------------------------------------------------------------
(* Properties of the string predicates *)

TextFields == {JStr(sFrom), JStr(sTo), JStr(sSubject), JStr(sMessage)}

\* a complete condition on a text field, evaluated against a record
TextConditionEvaluated ==
    /\ vin.fn = "evaluate_condition" /\ vout # NoCall
    /\ ConditionIsComplete(vin.condition)
    /\ vin.condition.f.field \in TextFields
    /\ vin.email.k = "dict"

WithPredicate(c, p) == [c EXCEPT !.f.predicate = p]
WithValue(c, v)     == [c EXCEPT !.f.value = v]

\* C11: on the same field, value and record, 'Contains' and 'Does not
\* Contain' give opposite booleans, and so do 'Equals' and 'Does not equal'.
C11_NegationPairs ==
    TextConditionEvaluated
    => /\ vin.condition.f.predicate = JStr(sContains)
          => evaluate_condition(WithPredicate(vin.condition, JStr(sDoesNotContain)),
                                vin.email, now) = Ret(~vout.ret)
       /\ vin.condition.f.predicate = JStr(sEquals)
          => evaluate_condition(WithPredicate(vin.condition, JStr(sDoesNotEqual)),
                                vin.email, now) = Ret(~vout.ret)

C11_Witness ==
    /\ TextConditionEvaluated
    /\ vin.condition = Cond(JStr(sFrom), JStr(sContains), JStr(tAb))
    /\ "from_address" \in DOMAIN vin.email.f
    /\ vin.email.f.from_address = JStr(tAb)
    /\ vout = Ret(TRUE)

\* str.upper() and str.swapcase(), to build mixed-case variants
upper(t) ==
    [i \in 1..Len(t) |->
        IF IndexOf(t[i], LowerChars) > 0
        THEN UpperChars[IndexOf(t[i], LowerChars)]
        ELSE t[i]]

swapcase(t) ==
    [i \in 1..Len(t) |->
        IF IndexOf(t[i], LowerChars) > 0 THEN UpperChars[IndexOf(t[i], LowerChars)]
        ELSE IF IndexOf(t[i], UpperChars) > 0 THEN LowerChars[IndexOf(t[i], UpperChars)]
        ELSE t[i]]

CaseVariants(t) == {t, lower(t), upper(t), swapcase(t)}

\* the text the record holds for the field of condition c ('' when absent)
FieldKey(c) == FIELD_MAPPING[c.f.field.s]

\* a string predicate on a text field whose text and value are strings
StringConditionOnText ==
    /\ TextConditionEvaluated
    /\ InList(vin.condition.f.predicate, STRING_PREDICATES)
    /\ vin.condition.f.value.k = "str"
    /\ FieldKey(vin.condition) \in DOMAIN vin.email.f
    /\ vin.email.f[FieldKey(vin.condition)].k = "str"

\* C12: the string predicates compare lower-cased operands: 'Contains' is
\* substring, 'Equals' is equality, the other two their negations; and no
\* mixed-case variant of the field text or of the value changes the result.
C12_CaseInsensitive ==
    StringConditionOnText
    => LET text == vin.email.f[FieldKey(vin.condition)].s
           val  == vin.condition.f.value.s
           p    == vin.condition.f.predicate
       IN  /\ vout = Ret(CASE p = JStr(sContains)       -> IsSubstring(lower(val), lower(text))
                           [] p = JStr(sDoesNotContain) -> ~IsSubstring(lower(val), lower(text))
                           [] p = JStr(sEquals)         -> lower(val) = lower(text)
                           [] p = JStr(sDoesNotEqual)   -> lower(val) # lower(text))
           /\ \A t2 \in CaseVariants(text) : \A v2 \in CaseVariants(val) :
                 evaluate_condition(
                     WithValue(vin.condition, JStr(v2)),
                     [vin.email EXCEPT !.f[FieldKey(vin.condition)] = JStr(t2)],
                     now) = vout

C12_Witness ==
    /\ StringConditionOnText
    /\ vin.condition = Cond(JStr(sFrom), JStr(sEquals), JStr(tAb))
    /\ vin.email.f.from_address = JStr(tAb)
    /\ vout = Ret(TRUE)

\* the record e with the empty string stored under key
WithEmptyText(e, key) == JDict((key :> JStr(<<>>)) @@ e.f)

\* the text field of the condition is missing from the record: the key is
\* absent, or the stored value is null
TextFieldMissing ==
    /\ TextConditionEvaluated
    /\ InList(vin.condition.f.predicate, STRING_PREDICATES)
    /\ \/ FieldKey(vin.condition) \notin DOMAIN vin.email.f
       \/ vin.email.f[FieldKey(vin.condition)] = JNull

\* C13: a string condition on a text field that is missing from the record
\* (key absent, or value null) evaluates as it does against the empty string.
C13_MissingAsEmpty ==
    TextFieldMissing
    => vout = evaluate_condition(vin.condition,
                                 WithEmptyText(vin.email, FieldKey(vin.condition)), now)

-----------------------------------------------------------------------------
(* Properties of the date predicates *)

\* the value reads '<N> day(s)' with N a non-negative integer
IsDaysValue(v) ==
    /\ v.k = "str"
    /\ Len(split(v.s)) = 2
    /\ IsIntLiteral(split(v.s)[1])
    /\ IntValue(split(v.s)[1]) >= 0
    /\ lower(split(v.s)[2]) \in {tDay, tDays}

DaysOf(v) == IntValue(split(v.s)[1])

\* the received date of the record is a point in time: a datetime, or a
\* string the parser reads
ReceivedParses(e) ==
    /\ e.k = "dict"
    /\ "received_date" \in DOMAIN e.f
    /\ \/ e.f.received_date.k = "datetime"
       \/ e.f.received_date.k = "str" /\ Returned(parser_parse(e.f.received_date.s))

ReceivedDay(e) ==
    IF e.f.received_date.k = "datetime" THEN e.f.received_date.t
    ELSE parser_parse(e.f.received_date.s).ret.t

\* a date predicate with a '<N> days' value, evaluated against a record
\* whose received date parses
DaysConditionEvaluated ==
    /\ vin.fn = "evaluate_condition" /\ vout # NoCall
    /\ ConditionIsComplete(vin.condition)
    /\ vin.condition.f.field = JStr(sReceived)
    /\ InList(vin.condition.f.predicate, DATE_PREDICATES)
    /\ IsDaysValue(vin.condition.f.value)
    /\ ReceivedParses(vin.email)

\* C14: for a record whose received date parses to t and a value of N days,
\* 'Less than' is true exactly when t < now - N days and 'Greater than'
\* exactly when t > now - N days.
C14_DateThreshold ==
    DaysConditionEvaluated
    => LET t == ReceivedDay(vin.email)
           n == DaysOf(vin.condition.f.value)
       IN  vout = Ret(IF vin.condition.f.predicate = JStr(sLessThan)
                      THEN t < now - n
                      ELSE t > now - n)

\* the value reads '<N> month(s)', in any case
IsMonthsValue(v) ==
    /\ v.k = "str"
    /\ Len(split(v.s)) = 2
    /\ IsIntLiteral(split(v.s)[1])
    /\ lower(split(v.s)[2]) \in {tMonth, tMonths}

\* the text '<30*N> days' for a value '<N> month(s)'
AsDaysValue(v) == JStr(PyStr(JInt(30 * IntValue(split(v.s)[1]))) \o <<" ">> \o tDays)

MonthsConditionEvaluated ==
    /\ vin.fn = "evaluate_condition" /\ vout # NoCall
    /\ ConditionIsComplete(vin.condition)
    /\ vin.condition.f.field = JStr(sReceived)
    /\ IsMonthsValue(vin.condition.f.value)

\* C15: a Received condition whose value is '<N> month(s)' evaluates, at the
\* same time and on the same record, as the same predicate with '<30*N> days'.
C15_MonthIsThirtyDays ==
    MonthsConditionEvaluated
    => vout = evaluate_condition(
                  WithValue(vin.condition, AsDaysValue(vin.condition.f.value)),
                  vin.email, now)

C15_Witness ==
    /\ MonthsConditionEvaluated
    /\ vin.condition = Cond(JStr(sReceived), JStr(sLessThan), JStr(t1month))
    /\ vin.email.k = "dict"
    /\ "received_date" \in DOMAIN vin.email.f
    /\ vin.email.f.received_date = PyDatetime(0 - 15, FALSE)
    /\ vout = Ret(TRUE)
    /\ evaluate_condition(Cond(JStr(sReceived), JStr(sLessThan), JStr(t2MonthsCaps)),
                          vin.email, now) = Ret(FALSE)

-----------------------------------------------------------------------------
(* Properties of rule evaluation *)

\* the rule is a mapping that carries a combinator and a list of conditions
RuleIsComplete(r) ==
    /\ r.k = "dict"
    /\ {"predicate", "conditions"} \subseteq DOMAIN r.f
    /\ r.f.conditions.k = "list"

RuleEvaluated ==
    /\ vin.fn = "evaluate_rule" /\ vout # NoCall
    /\ RuleIsComplete(vin.rule)

\* C16: a rule whose condition list is empty matches no record, under All
\* and under Any: evaluate_rule is false and get_matching_emails is empty.
C16_EmptyConditionsNoMatch ==
    /\ (RuleEvaluated /\ vin.rule.f.conditions.items = <<>>) => vout = Ret(FALSE)
    /\ (/\ vin.fn = "get_matching_emails" /\ vout # NoCall
        /\ RuleIsComplete(vin.rule) /\ vin.rule.f.conditions.items = <<>>)
       => vout = Ret(<<>>)

C16_Witness ==
    /\ RuleEvaluated
    /\ vin.rule = Rule(JStr(sAll), <<>>, <<aRead>>)
    /\ validate_rule(vin.rule)
    /\ vin.email = eOld
    /\ vout = Ret(FALSE)

\* C17: for a non-empty condition list, evaluate_rule is the conjunction of
\* the per-condition results under All, their disjunction under Any, and
\* false under any other combinator.
C17_Combinator ==
    (RuleEvaluated /\ vin.rule.f.conditions.items # <<>>)
    => LET cs == vin.rule.f.conditions.items
           holds(i) == evaluate_condition(cs[i], vin.email, now) = Ret(TRUE)
       IN  vout = Ret(IF vin.rule.f.predicate = JStr(sAll)
                      THEN \A i \in 1..Len(cs) : holds(i)
                      ELSE IF vin.rule.f.predicate = JStr(sAny)
                      THEN \E i \in 1..Len(cs) : holds(i)
                      ELSE FALSE)

C17_Witness ==
    /\ RuleEvaluated
    /\ vin.rule = Rule(JStr(sAll), <<cFromA, cRecvOk>>, <<aRead>>)
    /\ vin.email = eNew
    /\ vout = Ret(FALSE)
    /\ evaluate_rule(Rule(JStr(sAny), <<cFromA, cRecvOk>>, <<aRead>>), vin.email, now)
       = Ret(TRUE)

\* the rule matches the record at the present time
Matches(rule, email) == evaluate_rule(rule, email, now) = Ret(TRUE)

\* the records of a list that a rule matches, in the order of the list
RECURSIVE MatchedOf(_, _)
MatchedOf(emails, rule) ==
    IF emails = <<>> THEN <<>>
    ELSE (IF Matches(rule, Head(emails)) THEN <<Head(emails)>> ELSE <<>>)
         \o MatchedOf(Tail(emails), rule)

\* C18: get_matching_emails returns exactly the records of its input that
\* evaluate_rule accepts, each once and in input order.
C18_MatchingIsFilter ==
    (vin.fn = "get_matching_emails" /\ vout # NoCall)
    => vout = Ret(MatchedOf(vin.emails, vin.rule))

C18_Witness ==
    /\ vin.fn = "get_matching_emails" /\ vout # NoCall
    /\ vin.rule = rOk1
    /\ vin.emails = <<eNull, eOld>>
    /\ vout = Ret(<<eOld>>)

\* the key of the i-th rule, for i below ten
ExpectedKey(i) == <<"r", "u", "l", "e", "_", DigitChars[i + 1]>>

\* C19: process_emails returns a mapping whose keys are rule_1 .. rule_n, one
\* per rule of the engine; the entry of rule_i holds the i-th rule, the list
\* get_matching_emails gives for it, and the length of that list.
C19_ProcessEmailsShape ==
    (vin.fn = "process_emails" /\ vout # NoCall)
    => /\ DOMAIN vout.ret = {ExpectedKey(i) : i \in 1..Len(rules)}
       /\ \A i \in 1..Len(rules) :
             LET entry == vout.ret[ExpectedKey(i)]
             IN  /\ DOMAIN entry = {"rule", "matching_emails", "count"}
                 /\ entry.rule = rules[i]
                 /\ entry.matching_emails = MatchedOf(vin.emails, rules[i])
                 /\ entry.count = Len(entry.matching_emails)

C19_Witness ==
    /\ vin.fn = "process_emails" /\ vout # NoCall
    /\ rules = <<rOk1, rNoConditions>>
    /\ vin.emails = <<eNew, eOld>>
    /\ vout.ret[ExpectedKey(1)].count = 2
    /\ vout.ret[ExpectedKey(2)].count = 0

\* a call of one of the four evaluation operations returns
EvaluationStep == vout = NoCall /\ vout' # NoCall

\* C20: an evaluation leaves its arguments (records, rule) as they were,
\* leaves the engine's rule set and rules file alone, and changes no read
\* state or label in the emails table or in the provider's mailbox.
C20_EvaluationReadsOnly ==
    [][EvaluationStep
       => /\ vin' = vin
          /\ rules' = rules
          /\ source' = source
          /\ db' = db
          /\ gmail' = gmail]_vars

C20_Witness ==
    /\ vin.fn = "process_emails" /\ vout # NoCall
    /\ rules = <<rOk1>>
    /\ vin.emails = <<eOld>>
    /\ vout.ret[ExpectedKey(1)].count = 1
    /\ vin.emails[1].f.is_read = JBool(FALSE)
    /\ get_email_by_id(db, tM1) = eOld
    /\ Contains(gmail.messages[tM1], JStr(tUnread))

\* C21: two evaluations of the same (condition, record) or (rule, record)
\* pair return the same boolean, whenever each of them is run.
C21_SameResultWhenever ==
    prev # NoCall => vout = prev

-----------------------------------------------------------------------------
(* Properties of a run over records and rules that raise errors *)

\* the verdict of a validated condition on a record when every error inside
\* the evaluation counts as false
VerdictOrFalse(c, e) ==
    /\ e.k = "dict"
    /\ LET key   == FIELD_MAPPING[c.f.field.s]
           value == IF key \in DOMAIN e.f THEN e.f[key] ELSE JStr(<<>>)
           r     == IF c.f.field = JStr(sReceived)
                    THEN check_date_condition_try(value, c.f.predicate, c.f.value, now)
                    ELSE check_string_condition_try(value, c.f.predicate, c.f.value)
       IN  Returned(r) /\ r.ret

\* the verdict of a validated rule built from those of its conditions
RuleVerdict(r, e) ==
    LET cs == r.f.conditions.items
    IN  /\ cs # <<>>
        /\ IF r.f.predicate = JStr(sAll)
           THEN \A i \in 1..Len(cs) : VerdictOrFalse(cs[i], e)
           ELSE \E i \in 1..Len(cs) : VerdictOrFalse(cs[i], e)

RECURSIVE VerdictsOf(_, _)
VerdictsOf(emails, r) ==
    IF emails = <<>> THEN <<>>
    ELSE (IF RuleVerdict(r, Head(emails)) THEN <<Head(emails)>> ELSE <<>>)
         \o VerdictsOf(Tail(emails), r)

\* some condition of some rule raises on some record of the run
RunMeetsError ==
    \E i \in 1..Len(rules) : \E j \in 1..Len(vin.emails) :
        \E k \in 1..Len(rules[i].f.conditions.items) :
            Raised(evaluate_condition_try(rules[i].f.conditions.items[k], vin.emails[j], now))
            \/ (/\ vin.emails[j].k = "dict"
                /\ rules[i].f.conditions.items[k].f.field = JStr(sReceived)
                /\ "received_date" \in DOMAIN vin.emails[j].f
                /\ Raised(check_date_condition_try(vin.emails[j].f.received_date,
                              rules[i].f.conditions.items[k].f.predicate,
                              rules[i].f.conditions.items[k].f.value, now)))

\* C22: errors met while evaluating never abort process_emails: it returns,
\* with one entry per rule, and every record is tested against every rule,
\* a condition that raised counting as false for that record only.
C22_ErrorsNeverAbort ==
    (vin.fn = "process_emails" /\ vout # NoCall)
    => /\ Returned(vout)
       /\ DOMAIN vout.ret = {ExpectedKey(i) : i \in 1..Len(rules)}
       /\ \A i \in 1..Len(rules) :
             vout.ret[ExpectedKey(i)].matching_emails = VerdictsOf(vin.emails, rules[i])

C22_Witness ==
    /\ vin.fn = "process_emails" /\ vout # NoCall
    /\ RunMeetsError
    /\ rules = <<rAnyBad, rBoth>>
    /\ vin.emails = <<JNull, eOld>>
    /\ vout.ret[ExpectedKey(1)].matching_emails = <<eOld>>
    /\ vout.ret[ExpectedKey(2)].matching_emails = <<eOld>>

-----------------------------------------------------------------------------
(* Properties of the summary *)

\* the engine was loaded from an array in which every rule is valid
LoadedFromValidRules ==
    /\ source.kind = "json" /\ source.doc.k = "list"
    /\ \A i \in 1..Len(source.doc.items) : validate_rule(source.doc.items[i])

\* C24: after loading a document of valid rules, get_summary reports as
\* total_rules the number of rules and, at position i, id i with the
\* combinator and the numbers of conditions and actions of the i-th rule of
\* the document.
C24_SummaryRoundTrip ==
    (vin.fn = "get_summary" /\ vout # NoCall /\ LoadedFromValidRules)
    => LET doc == source.doc.items
       IN  /\ vout.ret.total_rules = Len(doc)
           /\ Len(vout.ret.rules) = Len(doc)
           /\ \A i \in 1..Len(doc) :
                 /\ vout.ret.rules[i].id = i
                 /\ vout.ret.rules[i].predicate = doc[i].f.predicate
                 /\ vout.ret.rules[i].conditions_count = Len(doc[i].f.conditions.items)
                 /\ vout.ret.rules[i].actions_count = Len(doc[i].f.actions.items)

C24_Witness ==
    /\ vin.fn = "get_summary" /\ vout # NoCall /\ LoadedFromValidRules
    /\ source.doc.items = <<rOk1, rBoth>>
    /\ vout.ret.total_rules = 2
    /\ vout.ret.rules[2].predicate = JStr(sAll)
    /\ vout.ret.rules[2].conditions_count = 2
    /\ vout.ret.rules[2].actions_count = 1

-----------------------------------------------------------------------------
(* The emails table *)

\* the value an insert writes for a field: the record's, or the column's
\* default when the record lacks the field
Written(e, field, default) ==
    IF field \in DOMAIN e.f THEN e.f[field] ELSE default

\* what the ledger says a read of the id returns
LedgerRecord(entry) ==
    JDict([id            |-> entry.email.f.id,
           from_address  |-> Written(entry.email, "from_address", JNull),
           received_date |-> Written(entry.email, "received_date", JNull),
           is_read       |-> IF entry.is_read = Absent
                             THEN Written(entry.email, "is_read", JBool(FALSE))
                             ELSE entry.is_read,
           labels        |-> IF entry.labels = Absent
                             THEN Written(entry.email, "labels", JList(<<>>))
                             ELSE entry.labels])

\* C25: get_email_by_id returns the values written by the most recent insert
\* of the id, with is_read and labels replaced by the most recent later
\* update and every other field as inserted; labels come back with the same
\* elements in the same order.
C25_ReadReturnsLastWritten ==
    (vin.fn = "get_email_by_id" /\ vin.email_id \in DOMAIN hist)
        => vout = Ret(LedgerRecord(hist[vin.email_id]))

\* a record inserted twice, then given a new read state and two labels in an
\* order no insert wrote, is read back
C25_Witness ==
    /\ vin.fn = "get_email_by_id"
    /\ vin.email_id = tM1
    /\ tM1 \in DOMAIN hist
    /\ hist[tM1].again
    /\ hist[tM1].email = eOld
    /\ hist[tM1].is_read = JBool(TRUE)
    /\ hist[tM1].labels = JList(<<JStr(tUnread), JStr(tInbox)>>)
    /\ vout.ret.f.labels.items = <<JStr(tUnread), JStr(tInbox)>>
    /\ vout.ret.f.from_address = JStr(tAb)

\* C26: get_email_count is the number of distinct ids inserted and not since
\* deleted or cleared, and get_email_by_id returns None for exactly the ids
\* outside that set.
C26_CountIsLiveIds ==
    /\ vin.fn = "get_email_count" => vout = Ret(Cardinality(DOMAIN hist))
    /\ vin.fn = "get_email_by_id"
          => (vout = Ret(JNull) <=> vin.email_id \notin DOMAIN hist)
    /\ \A id \in DbIds : get_email_by_id(db, id) = JNull <=> id \notin DOMAIN hist

\* one id inserted more than once and still there, another gone: the count
\* is 1
C26_Witness ==
    /\ vin.fn = "get_email_count"
    /\ vout = Ret(1)
    /\ DOMAIN hist = {tM1}
    /\ hist[tM1].again

-----------------------------------------------------------------------------
(* The processor *)

\* what process_emails finds in the records stored at the start of the run
Unchunked == process_emails(rules, hist.start, now).results

\* the (rule, record) matches among results
PairsOf(results) ==
    UNION {{<<i, results[ExpectedKey(i)].matching_emails[k].f.id.s>> :
               k \in 1..results[ExpectedKey(i)].count} : i \in 1..Len(rules)}

\* the turns execute_actions was called in: a rule and a record
ActedTurns == {k \in 1..Len(hist.log) : hist.log[k].action = 1}

ActedPairs == {<<hist.log[k].rule, hist.log[k].email_id>> : k \in ActedTurns}

\* a chunked run that read every batch it asked for
ChunkedRunComplete ==
    /\ vin.fn = "process_in_batches"
    /\ proc.pc = "done"
    /\ Len(hist.start) > 0
    /\ proc.processed_count >= Len(hist.start)

\* C23: process_in_batches produces the same aggregate as process_with_rules
\* over the same stored records, also when they fill more than one chunk:
\* the same (rule, record) matches, each acted on and counted once.
C23_ChunkedSameAsUnchunked ==
    ChunkedRunComplete =>
        LET matches == PairsOf(Unchunked)
        IN  /\ ActedPairs = matches
            /\ Cardinality(ActedTurns) = Cardinality(matches)
            /\ vout.ret.matched = Cardinality(matches)
            /\ vout.ret.processed = Len(hist.start)

\* ceil(T / BATCH_PROCESS_SIZE)
Chunks(T) == (T + BATCH_PROCESS_SIZE - 1) \div BATCH_PROCESS_SIZE

\* C27: process_in_batches terminates; the body of its loop is entered at
\* most ceil(T / BATCH_PROCESS_SIZE) times for the count T read at the
\* start, and after an empty batch it is not entered again.
C27_BatchesTerminate ==
    /\ [](vin.fn = "process_in_batches"
            => /\ hist.iterations <= Chunks(proc.total_emails)
               /\ proc.pc = "acting" => proc.emails # <<>>
               /\ proc.pc = "loop" => proc.processed_count >= hist.iterations)
    /\ <>(proc.pc = "done")

\* three records counted, the first batch acted on, the second read comes
\* back empty: the run ends after two of its two possible iterations
C27_Witness ==
    /\ vin.fn = "process_in_batches"
    /\ proc.pc = "done"
    /\ proc.total_emails = 3
    /\ hist.iterations = 2
    /\ proc.processed_count = 2
    /\ hist.log # <<>>

\* a call of an action method was made in this step
ActionCalled(method) ==
    /\ Len(hist'.log) = Len(hist.log) + 1
    /\ prev'.fn = method

\* C28: a move_message that returns False leaves the message's labels at
\* the provider and in the store as they were before the call.
C28_FailedMoveChangesNothing ==
    [][(ActionCalled("move_message") /\ prev'.ret = FALSE)
          => (gmail' = gmail /\ db' = db)]_vars

\* C29: when mark_as_read(id, b) returns True, the provider's read state and
\* the store's is_read of the message both equal b.
C29_SuccessMeansBothUpdated ==
    (prev # NoCall /\ prev.fn = "mark_as_read" /\ prev.ret = TRUE)
        => /\ Contains(gmail.messages[prev.email_id], JStr(tUnread))
                 = Falsy(prev.value)
           /\ get_email_by_id(db, prev.email_id).f.is_read
                 = JBool(~Falsy(prev.value))

\* the place of a call in the order rule, match, action
Before(a, b) ==
    \/ a.rule < b.rule
    \/ a.rule = b.rule /\ a.at < b.at
    \/ a.rule = b.rule /\ a.at = b.at /\ a.action < b.action

\* the calls a finished run has made on the matches of the rules up to i
RECURSIVE CallsDue(_, _)
CallsDue(results, i) ==
    IF i = 0 THEN 0
    ELSE results[ExpectedKey(i)].count * Len(rules[i].f.actions.items)
         + CallsDue(results, i - 1)

\* C30: process_with_rules calls the actions rule by rule in rule-set
\* order, within a rule record by record in match order, for a record in
\* list order; the matches are those of the records as read before any
\* action ran; and at the end a record's read state is the one the last
\* read-state action called on it left.
C30_ActionOrder ==
    vin.fn = "process_with_rules" =>
      LET snapshot == Unchunked
      IN
        /\ \A i, j \in 1..Len(hist.log) :
              i < j => Before(hist.log[i], hist.log[j])
        /\ \A k \in 1..Len(hist.log) :
              LET c == hist.log[k]
                  found == snapshot[ExpectedKey(c.rule)]
              IN  /\ c.at <= found.count
                  /\ c.action <= Len(rules[c.rule].f.actions.items)
                  /\ found.matching_emails[c.at].f.id.s = c.email_id
                  /\ proc.results[ExpectedKey(c.rule)].matching_emails[c.at]
                        = found.matching_emails[c.at]
        /\ (proc.pc = "done" /\ vout.ret.processed > 0)
              => /\ Len(hist.log) = CallsDue(snapshot, Len(rules))
                 /\ \A id \in DOMAIN hist.last :
                       (hist.last[id] # Absent /\ hist.last[id].ret)
                          => /\ Contains(gmail.messages[id], JStr(tUnread))
                                   = ~hist.last[id].is_read
                             /\ hist.last[id].stored
                                   => get_email_by_id(db, id).f.is_read
                                         = JBool(hist.last[id].is_read)

\* record m1 matched rule_1, which marks unread, and rule_2, which marks
\* read, and ends up read at the provider and in the store
C30_Witness ==
    /\ vin.fn = "process_with_rules"
    /\ proc.pc = "done"
    /\ rules = <<pUnread, rOk1>>
    /\ \E i, j \in 1..Len(hist.log) :
          /\ hist.log[i].rule = 1 /\ hist.log[i].email_id = tM1
          /\ hist.log[j].rule = 2 /\ hist.log[j].email_id = tM1
    /\ hist.last[tM1] = [is_read |-> TRUE, ret |-> TRUE, stored |-> TRUE]
    /\ StoredEmail(1).f.is_read = JBool(FALSE)
    /\ get_email_by_id(db, tM1).f.is_read = JBool(TRUE)
    /\ ~Contains(gmail.messages[tM1], JStr(tUnread))

====
